---- MODULE Spec2Model ----
(***************************************************************************)
(* Verification model of kindly-web-search-mcp-server:                     *)
(*   - ChromiumPool / ChromiumSlot        (scrape/chromium_pool.py)        *)
(*   - fetch_html_via_nodriver supervisor (scrape/universal_html.py)       *)
(*   - load_url_as_markdown               (scrape/universal_html.py)       *)
(*   - resolve_page_content_markdown      (content/resolver.py)            *)
(*   - web_search / get_content tools     (server.py)                      *)
(*   - the render worker process          (scrape/nodriver_worker.py)      *)
(*   - render timeout budget, worker command, worker diagnostic events     *)
(*   - sandbox and tool timeout resolvers (nodriver_worker.py, server.py)  *)
(*   - search_web provider fallback       (search/__init__.py)             *)
(*   - the start-mcp-server wrapper       (cli.py)                         *)
(* Each subsystem has its own specification over the shared variables.     *)
(***************************************************************************)
EXTENDS Integers, Sequences, FiniteSets, TLC

(***************************************************************************)
(* Bounds                                                                  *)
(***************************************************************************)
\* number of slots of the pool under analysis (the code allows 1..10)
PoolSize == 1
\* number of concurrent callers of acquire/release
NumCallers == 2
\* number of Chromium launches explored
MaxProcs == 2
\* number of distinct DevTools ports the port picker may return
NumPorts == 1

\* None for a process handle, a port and a slot reference
NoProc == 0
NoPort == 0
NoSlot == 0 - 1

SlotIds == 0 .. (PoolSize - 1)
Callers == 1 .. NumCallers
Pids == 1 .. MaxProcs
Ports == 1 .. NumPorts

VARIABLES
    \* ---- ChromiumPool -------------------------------------------------
    queue,      \* ChromiumPool.queue: sequence of slot ids
    slots,      \* ChromiumPool.slots: slot id -> [proc, port, dir]
    procs,      \* state of every Chromium process ever launched
    confirmed,  \* processes whose readiness wait in _start succeeded
    nextPid,    \* next process handle to be created
    pc,         \* position of each caller inside acquire / release
    slotOf,     \* slot a caller took from the queue (or NoSlot)
    result,     \* outcome of the caller's last acquire
    probedOld,  \* process whose health probe failed in the current acquire
    exitPath,   \* the return statement the caller's last acquire left by
    \* ---- fetch_html_via_nodriver ---------------------------------------
    spc,        \* position of the supervisor
    sres,       \* how the supervisor went back to its caller
    pending,    \* exception the handler in progress will re-raise
    wproc,      \* worker subprocess: none, running, exited
    wcode,      \* worker exit code
    tasks,      \* state of stdout_task, stderr_task, heartbeat_task, wait_task
    pipeOut,    \* chunks written to the worker's stdout and not yet read
    pipeErr,    \* characters written to the worker's stderr and not yet read
    bufOut,     \* chunks accumulated in stdout_state
    bufErr,     \* stderr_state: [buffer, tail]
    wErr,       \* everything the worker has written to its error channel
    sout,       \* what fetch_html_via_nodriver handed to its caller
    wbrowser,   \* the browser process this worker launched: none, running, exited
    \* ---- resolve_page_content_markdown / load_url_as_markdown ----------
    rUrl,       \* the url argument
    rEnv,       \* what the collaborators do for this url
    rOut,       \* result of resolve_page_content_markdown, once called
    lOut,       \* result of load_url_as_markdown, once called
    \* ---- web_search / get_content --------------------------------------
    tool,       \* which tool was called
    phase,      \* search, enrich, resolve, returned
    tUrls,      \* links of the search results (or the url of get_content)
    tState,     \* per candidate: pending, running, done
    tKind,      \* per candidate: how its resolution ended
    tPage,      \* per candidate: page_content
    tGiven,     \* per candidate: timeout handed to wait_for
    tNow,       \* time elapsed since the tool call started
    tBudget,    \* total budget of the call
    tPermits,   \* free permits of the semaphore
    tRaised,    \* an exception left the tool
    tCap,       \* value the semaphore was created with
    tConfigured, \* KINDLY_WEB_SEARCH_MAX_CONCURRENCY
    tRemaining, \* per candidate: the remaining budget it computed (or NotRead)
    \* ---- nodriver_worker ----------------------------------------------
    kpc,        \* position of the worker process
    kCfg,       \* its configuration: diagnostics, retry attempts, reuse, browser found
    kAttempt,   \* index of the launch loop
    kLaunches,  \* launch attempts made
    kNavs,      \* navigations started
    kChrome,    \* chrome_proc, the browser processes launched and the cleanup done
    kExc,       \* the exception being handled (or NoExc)
    kHtml,      \* the document _fetch_html returned
    kOut,       \* writes made to the output channel
    kErrText,   \* lines written to the error channel
    kExit,      \* exit code (or NoExit)
    \* ---- render timeout budget ----------------------------------------
    bud,        \* the configured total and what worker and parent make of it
    \* ---- one render request --------------------------------------------
    rq,         \* its environment, its position and the worker command line
    \* ---- one worker diagnostic event -----------------------------------
    dg,         \* the arguments of _emit_diag and the entry it wrote
    \* ---- configuration resolvers --------------------------------------
    cf,         \* which resolver is applied, its inputs and its result
    \* ---- search_web ----------------------------------------------------
    sr,         \* the configured providers, the calls made and the outcome
    \* ---- cli.main ------------------------------------------------------
    cli,        \* arguments, the environment and what the entry point saw
    \* ---- get_chromium_pool, shutdown ---------------------------------
    life,       \* the module globals of chromium_pool and the calls in progress
    \* ---- _read_stderr_stream on one text ------------------------------
    se,         \* the bytes written, those not yet read and the accumulator
    \* ---- a worker that blocks on full pipes ---------------------------
    wtodo,      \* the writes the worker has still to make, in order
    \* ---- web_search: the list handed back ------------------------------
    tResp       \* the order the enrich_one tasks ended in and the response

poolVars == <<queue, slots, procs, confirmed, nextPid, pc, slotOf, result, probedOld,
              exitPath>>

supVars == <<spc, sres, pending, wproc, wcode, tasks, pipeOut, pipeErr, bufOut, bufErr,
             wErr, sout, wbrowser>>

resVars == <<rUrl, rEnv, rOut, lOut>>

toolVars == <<tool, phase, tUrls, tState, tKind, tPage, tGiven, tNow, tBudget, tPermits,
              tRaised, tCap, tConfigured, tRemaining>>

workVars == <<kpc, kCfg, kAttempt, kLaunches, kNavs, kChrome, kExc, kHtml, kOut, kErrText,
              kExit>>

vars == <<poolVars, supVars, resVars, toolVars, workVars, bud, rq, dg, cf, sr, cli, life, se, wtodo, tResp>>

(***************************************************************************)
(* fetch_html_via_nodriver: the render worker supervisor                   *)
(***************************************************************************)
\* number of chunks the worker writes to each of its channels
MaxChunks == 2

TaskNames == {"stdout", "stderr", "heartbeat", "wait"}

\* no worker with a plan of writes
PlanIdle == wtodo = <<>>

\* size of the retained stderr tail (utils.diagnostics.MAX_STDERR_CHARS),
\* scaled down so that the texts explored here exceed it
MAX_STDERR_CHARS == 3

\* the token standing for the line marker "KINDLY_DIAG "
DiagPrefix == "K"

\* pieces the worker can write to its error channel in one write: part of a
\* line, a bare newline, a CRLF-terminated line, a diagnostic line
ErrChunks == { <<"a">>, <<"\n">>, <<"b", "\r", "\n">>, <<DiagPrefix, "a", "\n">> }

\* concatenation of a sequence of character sequences
RECURSIVE Flatten(_)
Flatten(ss) == IF ss = <<>> THEN <<>> ELSE Head(ss) \o Flatten(Tail(ss))

\* str.rstrip("\r")
RECURSIVE RStripCR(_)
RStripCR(s) ==
    IF Len(s) > 0 /\ s[Len(s)] = "\r" THEN RStripCR(SubSeq(s, 1, Len(s) - 1)) ELSE s

\* str.find("\n"), 1-based; 0 when there is none
NewlineIndex(s) ==
    IF \E i \in 1 .. Len(s) : s[i] = "\n"
    THEN CHOOSE i \in 1 .. Len(s) : s[i] = "\n" /\ \A j \in 1 .. (i - 1) : s[j] # "\n"
    ELSE 0

\* _StderrAccumulator()
NewStderrState == [buffer |-> <<>>, tail |-> <<>>, worker_entries |-> <<>>, parse_errors |-> <<>>]

\* _append_tail_text
AppendTailTextHead(existing, addition, limit) ==
    IF addition = <<>> THEN existing
    ELSE LET combined == existing \o addition IN
         IF Len(combined) <= limit THEN combined ELSE SubSeq(combined, 1, limit)

AppendTailText(existing, addition, limit) ==
    IF addition = <<>> THEN existing
    ELSE LET combined == existing \o addition IN
         IF Len(combined) <= limit THEN combined
         ELSE SubSeq(combined, Len(combined) - limit + 1, Len(combined))

RECURSIVE LStripBlanks(_)
LStripBlanks(s) ==
    IF s # <<>> /\ Head(s) = " " THEN LStripBlanks(Tail(s)) ELSE s

RECURSIVE RStripBlanks(_)
RStripBlanks(s) ==
    IF s # <<>> /\ s[Len(s)] = " " THEN RStripBlanks(SubSeq(s, 1, Len(s) - 1)) ELSE s

\* str.strip()
StripBlanks(s) == RStripBlanks(LStripBlanks(s))

\* json.loads on the payloads the model uses: one token is a JSON object,
\* one is a JSON value that is no object, everything else does not parse
JsonObject == "{}"

JsonNumber == "1"

JsonLoads(payload) ==
    IF payload = <<JsonObject>> THEN "dict"
    ELSE IF payload = <<JsonNumber>> THEN "int"
    ELSE "raises"

\* the sample kept of a payload that is no JSON object
ParseErrorSampleLimit == 200

ParseErrorSamples == 3

TruncateText(text, limit) ==
    IF Len(text) <= limit THEN text ELSE SubSeq(text, 1, limit)

\* _consume_stderr_line, the branch of a line that starts with the marker
ConsumeDiagLine(state, line) ==
    LET payload == StripBlanks(Tail(line)) IN
    IF JsonLoads(payload) = "dict"
    THEN [state EXCEPT !.worker_entries = Append(@, payload)]
    ELSE IF Len(state.parse_errors) < ParseErrorSamples
    THEN [state EXCEPT !.parse_errors =
                            Append(@, TruncateText(payload, ParseErrorSampleLimit))]
    ELSE state

\* _consume_stderr_line: empty lines are dropped, a diagnostic line goes to
\* worker_entries or parse_errors, any other line goes to the tail
ConsumeStderrLineKeepsMarker(state, line, limit) ==
    IF line = <<>> THEN state
    ELSE [IF line[1] = DiagPrefix THEN ConsumeDiagLine(state, line) ELSE state
            EXCEPT !.tail = AppendTailText(@, line \o <<"\n">>, limit)]

ConsumeStderrLine(state, line, limit) ==
    IF line = <<>> THEN state
    ELSE IF line[1] = DiagPrefix THEN ConsumeDiagLine(state, line)
    ELSE [state EXCEPT !.tail = AppendTailText(@, line \o <<"\n">>, limit)]

\* _read_stderr_stream, inner loop: complete lines leave the buffer
RECURSIVE SplitBufferedLines(_, _)
SplitBufferedLines(state, limit) ==
    LET i == NewlineIndex(state.buffer) IN
    IF i = 0 THEN state
    ELSE SplitBufferedLines(
            ConsumeStderrLine(
                [state EXCEPT !.buffer = SubSeq(@, i + 1, Len(@))],
                RStripCR(SubSeq(state.buffer, 1, i - 1)), limit),
            limit)

\* the two bytes of the UTF-8 encoding of one character outside ASCII, that
\* character, and the replacement character U+FFFD
LeadByte == "C3"

ContinuationByte == "A9"

TwoByteChar == "e'"

ReplacementChar == "?"

\* bytes.decode("utf-8", errors="replace") of one chunk: every other token
\* is an ASCII character and its own encoding
RECURSIVE Decode(_)
Decode(bytes) ==
    IF bytes = <<>> THEN <<>>
    ELSE IF Head(bytes) = LeadByte /\ Len(bytes) >= 2 /\ bytes[2] = ContinuationByte
    THEN <<TwoByteChar>> \o Decode(SubSeq(bytes, 3, Len(bytes)))
    ELSE IF Head(bytes) \in {LeadByte, ContinuationByte}
    THEN <<ReplacementChar>> \o Decode(Tail(bytes))
    ELSE <<Head(bytes)>> \o Decode(Tail(bytes))

\* _read_stderr_stream, one chunk: decoded, appended to the buffer, split
FeedStderrChunk(state, chunk, limit) ==
    SplitBufferedLines([state EXCEPT !.buffer = @ \o Decode(chunk)], limit)

\* _finalize_stderr_state
FinalizeStderrState(state, limit) ==
    IF state.buffer = <<>> THEN state
    ELSE ConsumeStderrLine([state EXCEPT !.buffer = <<>>], RStripCR(state.buffer), limit)

\* detail or 'unknown error'
UnknownError == <<"unknown error">>

DetailOrUnknown(detail) == IF detail = <<>> THEN UnknownError ELSE detail

\* nothing handed to the caller yet
NoOutcome == [exit |-> 0, detail |-> <<>>, html |-> 0]

\* state before create_subprocess_exec
SupInit ==
    /\ spc = "start"
    /\ sres = "none"
    /\ pending = "none"
    /\ wproc = "none"
    /\ wcode = 0
    /\ tasks = [t \in TaskNames |-> "none"]
    /\ pipeOut = 0
    /\ pipeErr = <<>>
    /\ bufOut = 0
    /\ bufErr = NewStderrState
    /\ wErr = <<>>
    /\ sout = NoOutcome
    /\ wbrowser = "none"

\* create_subprocess_exec succeeds; the four tasks are created and the
\* supervisor waits on gather under the outer timeout
SupSpawn ==
    /\ spc = "start"
    /\ spc' = "gather"
    /\ wproc' = "running"
    /\ tasks' = [t \in TaskNames |-> "running"]
    /\ UNCHANGED <<sres, pending, wcode, pipeOut, pipeErr, bufOut, bufErr, wErr, sout, wbrowser>>

\* create_subprocess_exec raises: there is no worker
SupSpawnFail ==
    /\ spc = "start"
    /\ spc' = "done"
    /\ sres' = "SpawnError"
    /\ UNCHANGED <<pending, wproc, wcode, tasks, pipeOut, pipeErr, bufOut, bufErr, wErr, sout, wbrowser>>

\* the worker writes a chunk to its output channel
WorkerWriteOut ==
    /\ wproc = "running"
    /\ pipeOut + bufOut < MaxChunks
    /\ pipeOut' = pipeOut + 1
    /\ UNCHANGED <<spc, sres, pending, wproc, wcode, tasks, pipeErr, bufOut, bufErr, wErr, sout, wbrowser>>

\* the worker writes to its error channel
WorkerWriteErr ==
    /\ wproc = "running"
    /\ Len(wErr) < MaxChunks
    /\ \E chunk \in ErrChunks :
        /\ pipeErr' = pipeErr \o chunk
        /\ wErr' = Append(wErr, chunk)
    /\ UNCHANGED <<spc, sres, pending, wproc, wcode, tasks, pipeOut, bufOut, bufErr, sout, wbrowser>>

\* the worker launches Chromium (_launch_chromium: a session of its own on
\* POSIX)
WorkerLaunchChromium ==
    /\ wproc = "running"
    /\ wbrowser = "none"
    /\ wbrowser' = "running"
    /\ UNCHANGED <<spc, sres, pending, wproc, wcode, tasks, pipeOut, pipeErr, bufOut, bufErr, wErr, sout>>

\* the worker's cleanup terminates the browser it launched
WorkerTerminatesChromium ==
    /\ wproc = "running"
    /\ wbrowser = "running"
    /\ wbrowser' = "exited"
    /\ UNCHANGED <<spc, sres, pending, wproc, wcode, tasks, pipeOut, pipeErr, bufOut, bufErr, wErr, sout>>

\* the worker exits on its own, after its cleanup: 0 success, 1 failure,
\* 130 interrupted
WorkerExit ==
    /\ wproc = "running"
    /\ wbrowser # "running"
    /\ wproc' = "exited"
    /\ \E code \in {0, 1, 130} : wcode' = code
    /\ UNCHANGED <<spc, sres, pending, tasks, pipeOut, pipeErr, bufOut, bufErr, wErr, sout, wbrowser>>

\* _read_stdout_stream: one chunk read and appended to the buffer
ReadStdout ==
    /\ tasks["stdout"] = "running"
    /\ pipeOut > 0
    /\ pipeOut' = pipeOut - 1
    /\ bufOut' = bufOut + 1
    /\ UNCHANGED <<spc, sres, pending, wproc, wcode, tasks, pipeErr, bufErr, wErr, sout, wbrowser>>

\* _read_stderr_stream: stream.read returns some of the unread characters,
\* which are split into lines and consumed
ReadStderr ==
    /\ tasks["stderr"] = "running"
    /\ \E k \in 1 .. Len(pipeErr) :
        /\ pipeErr' = SubSeq(pipeErr, k + 1, Len(pipeErr))
        /\ bufErr' = FeedStderrChunk(bufErr, SubSeq(pipeErr, 1, k), MAX_STDERR_CHARS)
    /\ UNCHANGED <<spc, sres, pending, wproc, wcode, tasks, pipeOut, bufOut, wErr, sout, wbrowser>>

\* a drain task reads end of file (the worker has exited) and finishes
DrainEof(t) ==
    /\ tasks[t] = "running"
    /\ wproc = "exited"
    /\ IF t = "stdout" THEN pipeOut = 0 ELSE pipeErr = <<>>
    /\ tasks' = [tasks EXCEPT ![t] = "done"]
    /\ UNCHANGED <<spc, sres, pending, wproc, wcode, pipeOut, pipeErr, bufOut, bufErr, wErr, sout, wbrowser>>

\* stream.read raises in a drain task (the pipe transport reports an error)
DrainFail(t) ==
    /\ tasks[t] = "running"
    /\ tasks' = [tasks EXCEPT ![t] = "failed"]
    /\ UNCHANGED <<spc, sres, pending, wproc, wcode, pipeOut, pipeErr, bufOut, bufErr, wErr, sout, wbrowser>>

\* _emit_worker_heartbeat returns: at once without diagnostics, otherwise
\* when it sees the worker's return code
HeartbeatDone ==
    /\ tasks["heartbeat"] = "running"
    /\ tasks' = [tasks EXCEPT !["heartbeat"] = "done"]
    /\ UNCHANGED <<spc, sres, pending, wproc, wcode, pipeOut, pipeErr, bufOut, bufErr, wErr, sout, wbrowser>>

\* proc.wait() returns
WaitDone ==
    /\ tasks["wait"] = "running"
    /\ wproc = "exited"
    /\ tasks' = [tasks EXCEPT !["wait"] = "done"]
    /\ UNCHANGED <<spc, sres, pending, wproc, wcode, pipeOut, pipeErr, bufOut, bufErr, wErr, sout, wbrowser>>

\* gather completes: all four tasks are done; the stderr state is finalized
\* and the outcome is classified by exit code
SupGatherDone ==
    /\ spc = "gather"
    /\ \A t \in TaskNames : tasks[t] = "done"
    /\ spc' = "done"
    /\ bufErr' = FinalizeStderrState(bufErr, MAX_STDERR_CHARS)
    /\ sres' = IF wcode # 0 THEN "RuntimeError" ELSE "html"
    /\ sout' = IF wcode # 0
               THEN [exit |-> wcode, detail |-> DetailOrUnknown(bufErr'.tail), html |-> 0]
               ELSE [exit |-> 0, detail |-> <<>>, html |-> bufOut]
    /\ UNCHANGED <<pending, wproc, wcode, tasks, pipeOut, pipeErr, bufOut, wErr, wbrowser>>

\* gather re-raises the exception of a failed task; it is neither
\* TimeoutError nor CancelledError, so no except clause of the supervisor
\* runs and the exception leaves fetch_html_via_nodriver
SupGatherError ==
    /\ spc = "gather"
    /\ \E t \in TaskNames : tasks[t] = "failed"
    /\ spc' = "done"
    /\ sres' = "DrainError"
    /\ UNCHANGED <<pending, wproc, wcode, tasks, pipeOut, pipeErr, bufOut, bufErr, wErr, sout, wbrowser>>

\* except TimeoutError / except CancelledError: every task is cancelled and
\* awaited
SupInterrupted(exc) ==
    /\ spc = "gather"
    /\ \A t \in TaskNames : tasks[t] # "failed"
    /\ tasks' = [t \in TaskNames |->
                    IF tasks[t] = "running" THEN "cancelled" ELSE tasks[t]]
    /\ pending' = exc
    /\ spc' = "kill"
    /\ UNCHANGED <<sres, wproc, wcode, pipeOut, pipeErr, bufOut, bufErr, wErr, sout, wbrowser>>

\* the outer wait_for timeout fires
SupOuterTimeout == SupInterrupted("TimeoutError")

\* the caller cancels the supervisor
SupCancelled == SupInterrupted("CancelledError")

\* the processes _terminate_process_tree ends.  POSIX: proc.kill() signals
\* the worker alone, and the browser runs in a session of its own.  Windows:
\* proc.terminate() ends the worker alone; taskkill /T runs only when the
\* worker is still running 1.5 s later, and then ends the browser with it.
TerminateProcessTree(os_name, lingers) ==
    IF wproc = "running" /\ wbrowser = "running" /\ os_name = "nt" /\ lingers
    THEN "exited"
    ELSE wbrowser

\* _terminate_process_tree (kill, then wait); the timeout handler then
\* finalizes the stderr state; the handler re-raises the exception it caught,
\* whose message is empty, so the detail handed to the caller stays empty
SupTerminateTree ==
    /\ spc = "kill"
    /\ wproc' = "exited"
    /\ wcode' = IF wproc = "running" THEN 0 - 9 ELSE wcode
    /\ \E os_name \in {"posix", "nt"}, lingers \in BOOLEAN :
          wbrowser' = TerminateProcessTree(os_name, lingers)
    /\ bufErr' = IF pending = "TimeoutError"
                 THEN FinalizeStderrState(bufErr, MAX_STDERR_CHARS) ELSE bufErr
    /\ spc' = "done"
    /\ sres' = pending
    /\ UNCHANGED <<pending, tasks, pipeOut, pipeErr, bufOut, wErr, sout>>

SupFrame == UNCHANGED <<poolVars, resVars, toolVars, workVars, bud, rq, dg, cf, sr, cli, life, se, wtodo, tResp>>

SupNext ==
    \/ SupSpawn /\ SupFrame
    \/ SupSpawnFail /\ SupFrame
    \/ WorkerWriteOut /\ SupFrame
    \/ WorkerWriteErr /\ SupFrame
    \/ WorkerLaunchChromium /\ SupFrame
    \/ WorkerTerminatesChromium /\ SupFrame
    \/ WorkerExit /\ SupFrame
    \/ ReadStdout /\ SupFrame
    \/ ReadStderr /\ SupFrame
    \/ \E t \in {"stdout", "stderr"} : DrainEof(t) /\ SupFrame
    \/ \E t \in {"stdout", "stderr"} : DrainFail(t) /\ SupFrame
    \/ HeartbeatDone /\ SupFrame
    \/ WaitDone /\ SupFrame
    \/ SupGatherDone /\ SupFrame
    \/ SupGatherError /\ SupFrame
    \/ SupOuterTimeout /\ SupFrame
    \/ SupCancelled /\ SupFrame
    \/ SupTerminateTree /\ SupFrame

\* C3: fetch_html_via_nodriver never goes back to its caller while the
\* worker it spawned is running or a drain task is still active.
C3_NoReturnWhileWorkerAlive ==
    spc = "done" => (wproc # "running" /\ \A t \in TaskNames : tasks[t] # "running")

(***************************************************************************)
(* ChromiumSlot                                                            *)
(***************************************************************************)
\* dataclass defaults of ChromiumSlot: port, proc and user_data_dir are None
NewSlot == [proc |-> NoProc, port |-> NoPort, dir |-> FALSE]

\* proc.returncode is None
Alive(ps, p) == p # NoProc /\ ps[p] \in {"starting", "up"}

\* worker._terminate_process: the process is signalled, killed if it does
\* not exit within the grace period, and waited for
TerminateProcess(ps, p) ==
    IF Alive(ps, p) THEN [ps EXCEPT ![p] = "exited"] ELSE ps

\* ChromiumSlot.terminate, effect on the slot: the handle is dropped and the
\* profile directory is cleaned up and dropped (port is left as it is)
TerminateSlotKeepAll(slot) == slot

TerminateSlot(slot) == [slot EXCEPT !.proc = NoProc, !.dir = FALSE]

\* ChromiumSlot.terminate, effect on the process table
TerminateProcsNoKill(ps, slot) == ps

TerminateProcs(ps, slot) == TerminateProcess(ps, slot.proc)

(***************************************************************************)
(* ChromiumPool                                                            *)
(***************************************************************************)
\* asyncio.Queue.get: removes and returns the head
QueueGetPeek(q) == [slot |-> Head(q), rest |-> q]

QueueGet(q) == [slot |-> Head(q), rest |-> Tail(q)]

\* asyncio.Queue.put on the unbounded queue
QueuePutTwice(q, s) == Append(Append(q, s), s)

QueuePut(q, s) == Append(q, s)

\* acquire, except asyncio.TimeoutError: return None
OnTimeoutPropagate == "raised"

OnTimeout == "unavailable"

\* acquire, except Exception around ensure_started: return None
OnStartErrorPropagate == "raised"

OnStartError == "unavailable"

\* ChromiumPool.__post_init__
PoolInit ==
    /\ queue = [i \in 1 .. PoolSize |-> i - 1]
    /\ slots = [s \in SlotIds |-> NewSlot]
    /\ procs = [p \in Pids |-> "unborn"]
    /\ confirmed = {}
    /\ nextPid = 1
    /\ pc = [c \in Callers |-> "idle"]
    /\ slotOf = [c \in Callers |-> NoSlot]
    /\ result = [c \in Callers |-> "pending"]
    /\ probedOld = [c \in Callers |-> NoProc]
    /\ exitPath = [c \in Callers |-> "none"]

\* acquire is called: the caller starts waiting on queue.get()
AcquireBegin(c) ==
    /\ pc[c] = "idle"
    /\ pc' = [pc EXCEPT ![c] = "waiting"]
    /\ UNCHANGED <<queue, slots, procs, confirmed, nextPid, slotOf, result, probedOld,
                   exitPath>>

\* queue.get() completes with the head of the queue
AcquireGet(c) ==
    /\ pc[c] = "waiting"
    /\ Len(queue) > 0
    /\ LET g == QueueGet(queue) IN
        /\ queue' = g.rest
        /\ slotOf' = [slotOf EXCEPT ![c] = g.slot]
    /\ pc' = [pc EXCEPT ![c] = "probe"]
    /\ UNCHANGED <<slots, procs, confirmed, nextPid, result, probedOld, exitPath>>

\* asyncio.wait_for raises TimeoutError: acquire returns None
AcquireTimeout(c) ==
    /\ pc[c] = "waiting"
    /\ pc' = [pc EXCEPT ![c] = "returned"]
    /\ result' = [result EXCEPT ![c] = OnTimeout]
    /\ exitPath' = [exitPath EXCEPT ![c] = "timeout"]
    /\ UNCHANGED <<queue, slots, procs, confirmed, nextPid, slotOf, probedOld>>

\* ensure_started, health probe answered: the slot is handed out as it is
EnsureStartedProbeOk(c) ==
    /\ pc[c] = "probe"
    /\ LET slot == slots[slotOf[c]] IN
        /\ Alive(procs, slot.proc)
        /\ slot.port # NoPort
        /\ procs[slot.proc] = "up"
    /\ pc' = [pc EXCEPT ![c] = "holding"]
    /\ result' = [result EXCEPT ![c] = "slot"]
    /\ exitPath' = [exitPath EXCEPT ![c] = "probed"]
    /\ UNCHANGED <<queue, slots, procs, confirmed, nextPid, slotOf, probedOld>>

\* ensure_started, process alive but port missing or probe failed (a live
\* process may stop answering at any time): terminate, then go on to _start
EnsureStartedProbeFail(c) ==
    /\ pc[c] = "probe"
    /\ LET s == slotOf[c]
           slot == slots[s] IN
        /\ Alive(procs, slot.proc)
        /\ probedOld' = [probedOld EXCEPT ![c] = slot.proc]
        /\ procs' = TerminateProcs(procs, slot)
        /\ slots' = [slots EXCEPT ![s] = TerminateSlot(slot)]
    /\ pc' = [pc EXCEPT ![c] = "start"]
    /\ UNCHANGED <<queue, confirmed, nextPid, slotOf, result, exitPath>>

\* ensure_started, no live process: straight to _start
EnsureStartedNoProc(c) ==
    /\ pc[c] = "probe"
    /\ ~Alive(procs, slots[slotOf[c]].proc)
    /\ pc' = [pc EXCEPT ![c] = "start"]
    /\ UNCHANGED <<queue, slots, procs, confirmed, nextPid, slotOf, result, probedOld, exitPath>>

\* _start up to the launch: executable resolved, profile directory created
\* when missing, port picked, process launched
StartLaunch(c) ==
    /\ pc[c] = "start"
    /\ nextPid <= MaxProcs
    /\ \E port \in Ports :
        slots' = [slots EXCEPT ![slotOf[c]] =
                    [proc |-> nextPid, port |-> port, dir |-> TRUE]]
    /\ procs' = [procs EXCEPT ![nextPid] = "starting"]
    /\ nextPid' = nextPid + 1
    /\ pc' = [pc EXCEPT ![c] = "waitready"]
    /\ UNCHANGED <<queue, confirmed, slotOf, result, probedOld, exitPath>>

\* _start raises before a process exists: no executable (nothing assigned),
\* port pick fails (directory was created), launch fails (port was assigned)
StartFailEarly(c) ==
    /\ pc[c] = "start"
    /\ LET s == slotOf[c]
           slot == slots[s] IN
        \/ UNCHANGED slots
        \/ slots' = [slots EXCEPT ![s] = [slot EXCEPT !.dir = TRUE]]
        \/ \E port \in Ports :
            slots' = [slots EXCEPT ![s] = [slot EXCEPT !.dir = TRUE, !.port = port]]
    /\ pc' = [pc EXCEPT ![c] = "failed"]
    /\ UNCHANGED <<queue, procs, confirmed, nextPid, slotOf, result, probedOld, exitPath>>

\* _start: _wait_for_devtools_ready returns
StartReady(c) ==
    /\ pc[c] = "waitready"
    /\ slots[slotOf[c]].proc # NoProc
    /\ LET p == slots[slotOf[c]].proc IN
        /\ procs[p] \in {"starting", "up"}
        /\ procs' = [procs EXCEPT ![p] = "up"]
        /\ confirmed' = confirmed \cup {p}
    /\ pc' = [pc EXCEPT ![c] = "holding"]
    /\ result' = [result EXCEPT ![c] = "slot"]
    /\ exitPath' = [exitPath EXCEPT ![c] = "started"]
    /\ UNCHANGED <<queue, slots, nextPid, slotOf, probedOld>>

\* _start: _wait_for_devtools_ready raises (exited early, or not ready in time)
StartNotReady(c) ==
    /\ pc[c] = "waitready"
    /\ slots[slotOf[c]].proc # NoProc
    /\ procs[slots[slotOf[c]].proc] \in {"starting", "exited"}
    /\ pc' = [pc EXCEPT ![c] = "failed"]
    /\ UNCHANGED <<queue, slots, procs, confirmed, nextPid, slotOf, result, probedOld, exitPath>>

\* acquire, except Exception: terminate the slot, release it, return None
AcquireFail(c) ==
    /\ pc[c] = "failed"
    /\ LET s == slotOf[c]
           slot == slots[s] IN
        /\ procs' = TerminateProcs(procs, slot)
        /\ slots' = [slots EXCEPT ![s] = TerminateSlot(slot)]
        /\ queue' = QueuePut(queue, s)
    /\ slotOf' = [slotOf EXCEPT ![c] = NoSlot]
    /\ pc' = [pc EXCEPT ![c] = "returned"]
    /\ result' = [result EXCEPT ![c] = OnStartError]
    /\ exitPath' = [exitPath EXCEPT ![c] = "start_error"]
    /\ probedOld' = [probedOld EXCEPT ![c] = NoProc]
    /\ UNCHANGED <<confirmed, nextPid>>

\* the caller has looked at the None it got and goes on
AcquireDone(c) ==
    /\ pc[c] = "returned"
    /\ pc' = [pc EXCEPT ![c] = "idle"]
    /\ result' = [result EXCEPT ![c] = "pending"]
    /\ exitPath' = [exitPath EXCEPT ![c] = "none"]
    /\ UNCHANGED <<queue, slots, procs, confirmed, nextPid, slotOf, probedOld>>

\* release by the holder of a slot
Release(c) ==
    /\ pc[c] = "holding"
    /\ queue' = QueuePut(queue, slotOf[c])
    /\ slotOf' = [slotOf EXCEPT ![c] = NoSlot]
    /\ pc' = [pc EXCEPT ![c] = "idle"]
    /\ result' = [result EXCEPT ![c] = "pending"]
    /\ exitPath' = [exitPath EXCEPT ![c] = "none"]
    /\ probedOld' = [probedOld EXCEPT ![c] = NoProc]
    /\ UNCHANGED <<slots, procs, confirmed, nextPid>>

\* environment: a running Chromium exits on its own
ProcExit(p) ==
    /\ Alive(procs, p)
    /\ procs' = [procs EXCEPT ![p] = "exited"]
    /\ UNCHANGED <<queue, slots, confirmed, nextPid, pc, slotOf, result, probedOld, exitPath>>

PoolFrame == UNCHANGED <<supVars, resVars, toolVars, workVars, bud, rq, dg, cf, sr, cli, life, se, wtodo, tResp>>

PoolNext ==
    \/ \E c \in Callers : AcquireBegin(c) /\ PoolFrame
    \/ \E c \in Callers : AcquireGet(c) /\ PoolFrame
    \/ \E c \in Callers : AcquireTimeout(c) /\ PoolFrame
    \/ \E c \in Callers : EnsureStartedProbeOk(c) /\ PoolFrame
    \/ \E c \in Callers : EnsureStartedProbeFail(c) /\ PoolFrame
    \/ \E c \in Callers : EnsureStartedNoProc(c) /\ PoolFrame
    \/ \E c \in Callers : StartLaunch(c) /\ PoolFrame
    \/ \E c \in Callers : StartFailEarly(c) /\ PoolFrame
    \/ \E c \in Callers : StartReady(c) /\ PoolFrame
    \/ \E c \in Callers : StartNotReady(c) /\ PoolFrame
    \/ \E c \in Callers : AcquireFail(c) /\ PoolFrame
    \/ \E c \in Callers : Release(c) /\ PoolFrame
    \/ \E c \in Callers : AcquireDone(c) /\ PoolFrame
    \/ \E p \in Pids : ProcExit(p) /\ PoolFrame

(***************************************************************************)
(* ChromiumPool: properties                                                *)
(***************************************************************************)
InQueueCount(s) == Cardinality({i \in 1 .. Len(queue) : queue[i] = s})

Holders(s) == {c \in Callers : slotOf[c] = s}

HeldCount == Cardinality({c \in Callers : slotOf[c] # NoSlot})

\* C1: every slot is either once in the availability queue and held by no
\* caller, or absent from the queue and held by exactly one caller.
C1_SlotInQueueXorHeld ==
    \A s \in SlotIds :
        \/ InQueueCount(s) = 1 /\ Holders(s) = {}
        \/ InQueueCount(s) = 0 /\ Cardinality(Holders(s)) = 1

\* a caller holds a slot that was started, released to the queue and taken
\* from the queue again, while another caller waits for it
C1_Witness ==
    \E c, w \in Callers, s \in SlotIds :
        /\ pc[c] = "holding"
        /\ slotOf[c] = s
        /\ exitPath[c] = "probed"
        /\ InQueueCount(s) = 0
        /\ pc[w] = "waiting"

\* C2: at most PoolSize slots are held at a time; while PoolSize slots are
\* held a waiting acquire either keeps waiting or returns None by timeout,
\* and no acquire ever ends by raising.
C2_AtMostSizeHeld ==
    /\ [](HeldCount <= PoolSize /\ \A c \in Callers : result[c] # "raised")
    /\ [][\A c \in Callers :
            (pc[c] = "waiting" /\ HeldCount = PoolSize) =>
                \/ pc'[c] = "waiting"
                \/ pc'[c] = "returned" /\ result'[c] = "unavailable"
                                      /\ slotOf'[c] = NoSlot]_vars

\* all slots are held and a further acquire has timed out
C2_Witness ==
    \E c \in Callers :
        /\ HeldCount = PoolSize
        /\ pc[c] = "returned"
        /\ exitPath[c] = "timeout"
        /\ result[c] = "unavailable"

\* C9: a slot in the queue never carries a launched process that was not
\* confirmed ready, and an acquire whose start failed returns None with the
\* slot terminated (no process handle, process not running, no profile
\* directory) and back in the queue.
C9_StartFailureReleasesCleanSlot ==
    /\ [](\A s \in SlotIds :
            (InQueueCount(s) > 0 /\ slots[s].proc # NoProc) =>
                slots[s].proc \in confirmed)
    /\ [][\A c \in Callers :
            pc[c] = "failed" =>
                \/ pc'[c] = "failed"
                \/ /\ pc'[c] = "returned"
                   /\ result'[c] = "unavailable"
                   /\ slotOf'[c] = NoSlot
                   /\ \E i \in 1 .. Len(queue') : queue'[i] = slotOf[c]
                   /\ slots'[slotOf[c]].proc = NoProc
                   /\ ~slots'[slotOf[c]].dir
                   /\ ~Alive(procs', slots[slotOf[c]].proc)]_vars

\* an acquire failed after it had launched a process: the process is gone
\* and the slot is back in the queue without it
C9_Witness ==
    \E c \in Callers, p \in Pids, s \in SlotIds :
        /\ pc[c] = "returned"
        /\ exitPath[c] = "start_error"
        /\ procs[p] = "exited" /\ p \notin confirmed
        /\ InQueueCount(s) = 1 /\ slots[s].proc = NoProc /\ ~slots[s].dir

\* C10: a caller that holds a slot whose health probe failed in this acquire
\* holds it with a different, later-launched process that was confirmed
\* ready; the probed process has exited and no slot references it.
C10_FailedProbeRelaunches ==
    \A c \in Callers :
        (pc[c] = "holding" /\ probedOld[c] # NoProc) =>
            LET new == slots[slotOf[c]].proc IN
            /\ new # NoProc
            /\ new > probedOld[c]
            /\ new \in confirmed
            /\ procs[probedOld[c]] = "exited"
            /\ \A s \in SlotIds : slots[s].proc # probedOld[c]

\* a slot was handed out after its probe failed and it was relaunched
C10_Witness ==
    \E c \in Callers :
        /\ pc[c] = "holding"
        /\ probedOld[c] # NoProc
        /\ exitPath[c] = "started"

\* the handler of acquire is about to deal with a process launched in this
\* acquire that did not become ready: what a browser does whose picked port
\* was taken by another process before it could bind it
LaunchLostPort(c) ==
    /\ pc[c] = "failed"
    /\ slots[slotOf[c]].proc # NoProc
    /\ slots[slotOf[c]].proc \notin confirmed

\* C35: an acquire whose launched browser did not become ready does not end
\* without a slot: the start is tried again with a newly picked port.
C35_LostPortRaceAbsorbed ==
    [][\A c \in Callers : LaunchLostPort(c) => result'[c] # "unavailable"]_vars

(***************************************************************************)
(* Text: a Python str is a sequence of tokens (single characters where the *)
(* code looks at characters); an optional str is a record.                 *)
(***************************************************************************)
Str(s) == [isNone |-> FALSE, text |-> s]

NoneValue == [isNone |-> TRUE, text |-> <<>>]

\* sub in s
Contains(s, sub) ==
    \E i \in 1 .. (Len(s) - Len(sub) + 1) : SubSeq(s, i, i + Len(sub) - 1) = sub

\* s.endswith(suffix)
EndsWith(s, suffix) ==
    /\ Len(s) >= Len(suffix)
    /\ SubSeq(s, Len(s) - Len(suffix) + 1, Len(s)) = suffix

\* str.lower on the characters the model uses
LowerChar(ch) ==
    CASE ch = "P" -> "p"
      [] ch = "D" -> "d"
      [] ch = "F" -> "f"
      [] OTHER -> ch

Lower(s) == [i \in 1 .. Len(s) |-> LowerChar(s[i])]

\* index of the first element of s that is in set, or Len(s) + 1
RECURSIVE FirstIn(_, _, _)
FirstIn(s, set, i) ==
    IF i > Len(s) THEN i
    ELSE IF s[i] \in set THEN i
    ELSE FirstIn(s, set, i + 1)

\* str.lstrip
RECURSIVE LStrip(_)
LStrip(s) ==
    IF s # <<>> /\ Head(s) \in {" ", "\n", "\t"} THEN LStrip(Tail(s)) ELSE s

(***************************************************************************)
(* URLs: the first token is scheme and authority, the rest are characters  *)
(***************************************************************************)
Origin == "https://example.com"

\* an authority urlparse rejects (unbalanced bracket)
BadOrigin == "https://[example.com"

Urls == {
    <<Origin, "/", "a">>,
    <<Origin, "/", "a", ".", "p", "d", "f">>,
    <<Origin, "/", "a", ".", "P", "D", "F">>,
    <<Origin, "/", "a", ".", "p", "d", "f", "?", "q">>,
    <<Origin, "/", "a", ".", "p", "d", "f", "#", "s">>,
    <<Origin, "/", "a", ".", "p", "d", "f", ";", "x">>,
    <<Origin, "/", "a", "?", "q", ".", "p", "d", "f">>,
    <<Origin, "/", "a", ".", "p", "d", "f", "x">>,
    <<Origin, "/", "p", "d", "f">>,
    <<BadOrigin, "/", "a", ".", "p", "d", "f">>,
    <<BadOrigin, "/", "a">> }

\* urlparse raises ValueError
UrlParseRaises(url) == Head(url) = BadOrigin

\* urlparse(url).path: after the authority, up to the first of ; ? #
UrlPath(url) ==
    LET rest == Tail(url) IN SubSeq(rest, 1, FirstIn(rest, {";", "?", "#"}, 1) - 1)

PdfSuffix == <<".", "p", "d", "f">>

\* _is_probably_pdf_url
IsProbablyPdfUrlNoLower(url) ==
    IF UrlParseRaises(url) THEN EndsWith(url, PdfSuffix)
    ELSE EndsWith(UrlPath(url), PdfSuffix)

IsProbablyPdfUrl(url) ==
    IF UrlParseRaises(url) THEN EndsWith(Lower(url), PdfSuffix)
    ELSE EndsWith(Lower(UrlPath(url)), PdfSuffix)

(***************************************************************************)
(* load_url_as_markdown                                                    *)
(***************************************************************************)
\* len(detail) > 400 in load_url_as_markdown
LoaderDetailLimit == 400

\* exceptions a collaborator may raise: type name and str(exc)
LongDetail == [i \in 1 .. (LoaderDetailLimit + 1) |-> "x"]

Excs == {
    [name |-> "RuntimeError", detail |-> <<"b", "o", "o", "m">>],
    [name |-> "TimeoutError", detail |-> <<>>],
    [name |-> "RuntimeError", detail |-> LongDetail] }

\* documents the worker may hand back
Htmls == {
    <<"<html>", "T", "</html>">>,
    <<"<html>", "</html>">>,
    <<>>,
    <<"%PDF-", "1">>,
    <<" ", "\n", "%PDF-", "1">>,
    <<"<html>", "%PDF-", "</html>">> }

\* what fetch_html_via_nodriver does when called
FetchOutcomes ==
    {[kind |-> "html", html |-> h, exc |-> CHOOSE e \in Excs : e.detail = <<>>] : h \in Htmls}
        \cup {[kind |-> "raise", html |-> <<>>, exc |-> e] : e \in Excs}

Tags == {"<html>", "</html>"}

IsText(t) == t \notin Tags

\* extract_content_as_markdown followed by sanitize_markdown: the text of
\* the document without its markup
ExtractContentAsMarkdown(html) == SelectSeq(html, IsText)

SourceLine(url) == <<"\n\n", "Source: ">> \o url \o <<"\n">>

\* html_to_markdown (output below max_markdown_chars)
HtmlToMarkdown(html, url) ==
    LET markdown == ExtractContentAsMarkdown(html) IN
    IF markdown = <<>>
    THEN <<"_Could not extract main content._">> \o SourceLine(url)
    ELSE markdown

\* detail[:400].rstrip() + ellipsis when str(exc) is longer than 400
LoaderDetail(exc) ==
    IF Len(exc.detail) > LoaderDetailLimit
    THEN Append(SubSeq(exc.detail, 1, LoaderDetailLimit), "...")
    ELSE exc.detail

\* the note load_url_as_markdown returns when fetch_html_via_nodriver raises
LoaderFailNote(url, exc) ==
    <<"_Failed to retrieve page content: ", exc.name>>
        \o (IF exc.detail # <<>> THEN <<": ">> \o LoaderDetail(exc) ELSE <<>>)
        \o <<"_">> \o SourceLine(url)

\* html.lstrip().startswith("%PDF-")
LooksLikePdfNever(html) == FALSE

LooksLikePdf(html) == LStrip(html) # <<>> /\ Head(LStrip(html)) = "%PDF-"

\* load_url_as_markdown: value returned and number of calls of
\* fetch_html_via_nodriver (the only place a subprocess is spawned)
LoadUrlAsMarkdown(url, fetched) ==
    IF IsProbablyPdfUrl(url)
    THEN [value |-> NoneValue, fetches |-> 0]
    ELSE IF fetched.kind = "raise"
    THEN [value |-> Str(LoaderFailNote(url, fetched.exc)), fetches |-> 1]
    ELSE IF LooksLikePdf(fetched.html)
    THEN [value |-> NoneValue, fetches |-> 1]
    ELSE [value |-> Str(HtmlToMarkdown(fetched.html, url)), fetches |-> 1]

(***************************************************************************)
(* resolve_page_content_markdown                                           *)
(***************************************************************************)
Stages == {"stackexchange", "github_issue", "github_discussion", "wikipedia", "arxiv"}

\* what the collaborators do for a url: the stages whose parse accepts it,
\* whether the fetch of the matched stage raises and with what, and what
\* fetch_html_via_nodriver does
Envs == [match : SUBSET Stages, raises : BOOLEAN, exc : Excs, fetched : FetchOutcomes]

Call(fn, url) == [fn |-> fn, url |-> url]

\* Markdown a specialized fetch returns
StageMarkdown(stage, url) == <<"# ", stage>> \o url

\* note of a stage that does not fall back (StackExchange, arXiv)
DirectFailNote(label, exc, url) ==
    <<"_Failed to retrieve ", label, " content: ", exc.name, "_">> \o SourceLine(url)

\* note of a stage that falls back (GitHub Issue, GitHub Discussion, Wikipedia)
FallbackFailNote(label, url) ==
    <<"_Failed to retrieve ", label, " content._">> \o SourceLine(url)

\* a matched stage without fallback: try fetch, except Exception -> note
DirectStageFallsBack(stage, label, fetch, calls, url, env) ==
    LET c == Append(calls, Call(fetch, url)) IN
    IF env.raises
    THEN LET fallback == LoadUrlAsMarkdown(url, env.fetched) IN
         [value |-> IF ~fallback.value.isNone THEN fallback.value
                    ELSE Str(DirectFailNote(label, env.exc, url)),
          calls |-> Append(c, Call("load_url_as_markdown", url)),
          fetches |-> fallback.fetches]
    ELSE [value |-> Str(StageMarkdown(stage, url)), calls |-> c, fetches |-> 0]

DirectStage(stage, label, fetch, calls, url, env) ==
    LET c == Append(calls, Call(fetch, url)) IN
    IF env.raises
    THEN [value |-> Str(DirectFailNote(label, env.exc, url)), calls |-> c, fetches |-> 0]
    ELSE [value |-> Str(StageMarkdown(stage, url)), calls |-> c, fetches |-> 0]

\* a matched stage with fallback: try fetch, except Exception -> universal
\* loader, and the stage's note when the loader returns None
FallbackStageNoLoader(stage, label, fetch, calls, url, env) ==
    LET c == Append(calls, Call(fetch, url)) IN
    IF env.raises
    THEN [value |-> Str(FallbackFailNote(label, url)), calls |-> c, fetches |-> 0]
    ELSE [value |-> Str(StageMarkdown(stage, url)), calls |-> c, fetches |-> 0]

FallbackStage(stage, label, fetch, calls, url, env) ==
    LET c == Append(calls, Call(fetch, url)) IN
    IF env.raises
    THEN LET fallback == LoadUrlAsMarkdown(url, env.fetched) IN
         [value |-> IF ~fallback.value.isNone THEN fallback.value
                    ELSE Str(FallbackFailNote(label, url)),
          calls |-> Append(c, Call("load_url_as_markdown", url)),
          fetches |-> fallback.fetches]
    ELSE [value |-> Str(StageMarkdown(stage, url)), calls |-> c, fetches |-> 0]

\* the last statement: return await load_url_as_markdown(url)
UniversalStageSubstitutes(calls, url, env) ==
    LET loaded == LoadUrlAsMarkdown(url, env.fetched) IN
    [value |-> IF loaded.value.isNone
               THEN Str(<<"_Failed to retrieve page content._">> \o SourceLine(url))
               ELSE loaded.value,
     calls |-> Append(calls, Call("load_url_as_markdown", url)),
     fetches |-> loaded.fetches]

UniversalStage(calls, url, env) ==
    LET loaded == LoadUrlAsMarkdown(url, env.fetched) IN
    [value |-> loaded.value,
     calls |-> Append(calls, Call("load_url_as_markdown", url)),
     fetches |-> loaded.fetches]

\* every parse is tried before the first accepted stage is fetched
ResolveParsesEveryStage(url, env) ==
    LET c1 == <<Call("parse_stackexchange_url", url)>>
        c2 == Append(c1, Call("parse_github_issue_url", url))
        c3 == Append(c2, Call("parse_github_discussion_url", url))
        c4 == Append(c3, Call("parse_wikipedia_url", url))
        c5 == Append(c4, Call("parse_arxiv_url", url))
    IN
    IF "stackexchange" \in env.match
    THEN DirectStage("stackexchange", "StackExchange",
                     "fetch_stackexchange_thread_markdown", c5, url, env)
    ELSE IF "github_issue" \in env.match
    THEN FallbackStage("github_issue", "GitHub Issue",
                       "fetch_github_issue_thread_markdown", c5, url, env)
    ELSE IF "github_discussion" \in env.match
    THEN FallbackStage("github_discussion", "GitHub Discussion",
                       "fetch_github_discussion_thread_markdown", c5, url, env)
    ELSE IF "wikipedia" \in env.match
    THEN FallbackStage("wikipedia", "Wikipedia",
                       "fetch_wikipedia_article_markdown", c5, url, env)
    ELSE IF "arxiv" \in env.match
    THEN DirectStage("arxiv", "arXiv", "fetch_arxiv_paper_markdown", c5, url, env)
    ELSE UniversalStage(c5, url, env)

\* resolve_page_content_markdown: value returned, calls made in order, and
\* number of calls of fetch_html_via_nodriver
ResolvePageContentMarkdown(url, env) ==
    LET c1 == <<Call("parse_stackexchange_url", url)>>
        c2 == Append(c1, Call("parse_github_issue_url", url))
        c3 == Append(c2, Call("parse_github_discussion_url", url))
        c4 == Append(c3, Call("parse_wikipedia_url", url))
        c5 == Append(c4, Call("parse_arxiv_url", url))
    IN
    IF "stackexchange" \in env.match
    THEN DirectStage("stackexchange", "StackExchange",
                     "fetch_stackexchange_thread_markdown", c1, url, env)
    ELSE IF "github_issue" \in env.match
    THEN FallbackStage("github_issue", "GitHub Issue",
                       "fetch_github_issue_thread_markdown", c2, url, env)
    ELSE IF "github_discussion" \in env.match
    THEN FallbackStage("github_discussion", "GitHub Discussion",
                       "fetch_github_discussion_thread_markdown", c3, url, env)
    ELSE IF "wikipedia" \in env.match
    THEN FallbackStage("wikipedia", "Wikipedia",
                       "fetch_wikipedia_article_markdown", c4, url, env)
    ELSE IF "arxiv" \in env.match
    THEN DirectStage("arxiv", "arXiv", "fetch_arxiv_paper_markdown", c5, url, env)
    ELSE UniversalStage(c5, url, env)

NotCalled == [called |-> FALSE, value |-> NoneValue, calls |-> <<>>, fetches |-> 0]

\* a call of either function with any url and any behaviour of the
\* collaborators
ResInit ==
    /\ rUrl \in Urls
    /\ rEnv \in Envs
    /\ rOut = NotCalled
    /\ lOut = NotCalled

\* the resolver and the loader are not in use
ResIdle ==
    /\ rUrl = <<Origin, "/", "a">>
    /\ rEnv = CHOOSE e \in Envs : TRUE
    /\ rOut = NotCalled
    /\ lOut = NotCalled

\* await resolve_page_content_markdown(rUrl)
ResolveCall ==
    /\ ~rOut.called
    /\ LET r == ResolvePageContentMarkdown(rUrl, rEnv) IN
        rOut' = [called |-> TRUE, value |-> r.value, calls |-> r.calls,
                 fetches |-> r.fetches]
    /\ UNCHANGED <<rUrl, rEnv, lOut>>

\* await load_url_as_markdown(rUrl)
LoadCall ==
    /\ ~lOut.called
    /\ LET l == LoadUrlAsMarkdown(rUrl, rEnv.fetched) IN
        lOut' = [called |-> TRUE, value |-> l.value, calls |-> <<>>,
                 fetches |-> l.fetches]
    /\ UNCHANGED <<rUrl, rEnv, rOut>>

ResFrame == UNCHANGED <<poolVars, supVars, toolVars, workVars, bud, rq, dg, cf, sr, cli, life, se, wtodo, tResp>>

ResNext ==
    \/ ResolveCall /\ ResFrame
    \/ LoadCall /\ ResFrame

(***************************************************************************)
(* web_search and get_content                                              *)
(***************************************************************************)
\* number of results the search provider returns
MaxResults == 2
\* time units explored
MaxTime == 2
\* total budgets explored, in time units
MaxBudget == 1

\* len(detail) > 200 in the tools
ToolDetailLimit == 200

Min(a, b) == IF a < b THEN a ELSE b

Max(a, b) == IF a > b THEN a ELSE b

\* result links the model uses
ToolUrls == {<<Origin, "/", "a">>, <<Origin, "/", "a", ".", "p", "d", "f">>}

NoDetailExc == CHOOSE x \in Excs : x.detail = <<>>

LongDetailExc == CHOOSE x \in Excs : x.detail = LongDetail

\* behaviours of the collaborators the tools are run against
ToolEnvs ==
    [match : {{}, {"arxiv"}}, raises : BOOLEAN, exc : {NoDetailExc},
     fetched : {f \in FetchOutcomes :
                    \/ f.kind = "raise" /\ f.exc = NoDetailExc
                    \/ f.kind = "html" /\ f.html \in {<<"<html>", "T", "</html>">>,
                                                       <<"%PDF-", "1">>}}]

\* what awaiting resolve_page_content_markdown(url) can give the tool: a
\* value (str or None) or an exception
ResolveOutcomes(url) ==
    {[kind |-> "value", value |-> ResolvePageContentMarkdown(url, e).value,
      exc |-> NoDetailExc] : e \in ToolEnvs}
        \cup {[kind |-> "raise", value |-> NoneValue, exc |-> x] :
                    x \in {NoDetailExc, LongDetailExc}}

\* KINDLY_WEB_SEARCH_MAX_CONCURRENCY values explored
CapConfigs == {0, 2, 7}

\* _resolve_web_search_max_concurrency
ResolveWebSearchMaxConcurrency(configured, numResults) ==
    LET value == Max(1, Min(configured, 5)) IN
    IF numResults > 0 THEN Min(value, numResults) ELSE value

\* _timeout_markdown_note
TimeoutMarkdownNoteNoSource(url, scope) ==
    <<"_Failed to retrieve page content: TimeoutError">>
        \o (IF scope # "" THEN <<": ", scope>> ELSE <<>>)
        \o <<"_">>

TimeoutMarkdownNote(url, scope) ==
    <<"_Failed to retrieve page content: TimeoutError">>
        \o (IF scope # "" THEN <<": ", scope>> ELSE <<>>)
        \o <<"_">> \o SourceLine(url)

\* except Exception in the tools: detail cut at 200, type name always named
ToolDetail(exc) ==
    IF Len(exc.detail) > ToolDetailLimit
    THEN Append(SubSeq(exc.detail, 1, ToolDetailLimit), "...")
    ELSE exc.detail

ExceptionNote(url, exc) ==
    <<"_Failed to retrieve page content", ": ", exc.name>>
        \o (IF exc.detail # <<>> THEN <<": ">> \o ToolDetail(exc) ELSE <<>>)
        \o <<"_">> \o SourceLine(url)

\* if page_md is None: the deterministic note
SubstituteNoneKeep(url, page) == page

SubstituteNone(url, page) ==
    IF page.isNone
    THEN Str(<<"_Could not retrieve content for this URL (possibly a PDF or unsupported type)._">>
                \o SourceLine(url))
    ELSE page

\* try / except TimeoutError / except Exception around wait_for, then the
\* None check: page_content for one url
PageContent(url, outcome, timeoutScope) ==
    SubstituteNone(url,
        CASE outcome.kind = "value" -> outcome.value
          [] outcome.kind = "timeout" -> Str(TimeoutMarkdownNote(url, timeoutScope))
          [] outcome.kind = "raise" -> Str(ExceptionNote(url, outcome.exc)))

TimeoutOutcome == [kind |-> "timeout", value |-> NoneValue, exc |-> NoDetailExc]

\* asyncio.Semaphore: __aenter__ takes a permit, __aexit__ gives it back
SemaphoreAcquire(permits) == permits - 1

SemaphoreReleaseSkipped(permits) == permits

SemaphoreRelease(permits) == permits + 1

\* n tasks leave their "async with" blocks
RECURSIVE ReleaseAll(_, _)
ReleaseAll(permits, n) ==
    IF n = 0 THEN permits ELSE ReleaseAll(SemaphoreRelease(permits), n - 1)

\* a candidate that has not computed its remaining budget
NotRead == 0 - 100

\* remaining = total_budget_seconds - (time.monotonic() - started)
Remaining(total, elapsed) == total - elapsed

\* if remaining <= 0
BudgetExhaustedStrict(remaining) == remaining < 0

BudgetExhausted(remaining) == remaining <= 0

\* no tool call in progress
ToolIdle ==
    /\ tool = "none"
    /\ phase = "returned"
    /\ tUrls = <<>>
    /\ tState = <<>>
    /\ tKind = <<>>
    /\ tPage = <<>>
    /\ tGiven = <<>>
    /\ tRemaining = <<>>
    /\ tNow = 0
    /\ tBudget = 1
    /\ tPermits = 0
    /\ tRaised = FALSE
    /\ tCap = 0
    /\ tConfigured = 0

\* no response is being put together
NoResponse == [order |-> <<>>, results |-> <<>>, returned |-> FALSE]

RespIdle == tResp = NoResponse

\* a tool was called: web_search awaits search_web, get_content awaits
\* wait_for(resolve_page_content_markdown(url), timeout=timeout_seconds)
ToolInit ==
    /\ tNow = 0
    /\ tBudget \in 1 .. MaxBudget
    /\ tPermits = 0
    /\ tRaised = FALSE
    /\ tCap = 0
    /\ tConfigured = 0
    /\ \/ /\ tool = "web_search"
          /\ phase = "search"
          /\ tUrls = <<>>
          /\ tState = <<>>
          /\ tKind = <<>>
          /\ tPage = <<>>
          /\ tGiven = <<>>
          /\ tRemaining = <<>>
       \/ /\ tool = "get_content"
          /\ phase = "resolve"
          /\ tUrls \in {<<u>> : u \in ToolUrls}
          /\ tState = <<"running">>
          /\ tKind = <<"none">>
          /\ tPage = <<NoneValue>>
          /\ tGiven = <<tBudget>>
          /\ tRemaining = <<NotRead>>

ResultLists == UNION {[1 .. n -> ToolUrls] : n \in 0 .. MaxResults}

\* search_web returns; the semaphore is created and every enrich_one task
\* is started (an empty result list returns at once)
SearchReturns ==
    /\ tool = "web_search" /\ phase = "search"
    /\ \E links \in ResultLists, configured \in CapConfigs :
        /\ tUrls' = links
        /\ tState' = [i \in 1 .. Len(links) |-> "pending"]
        /\ tKind' = [i \in 1 .. Len(links) |-> "none"]
        /\ tPage' = [i \in 1 .. Len(links) |-> NoneValue]
        /\ tGiven' = [i \in 1 .. Len(links) |-> 0]
        /\ tRemaining' = [i \in 1 .. Len(links) |-> NotRead]
        /\ tConfigured' = configured
        /\ tCap' = IF Len(links) = 0 THEN 0
                   ELSE ResolveWebSearchMaxConcurrency(configured, Len(links))
        /\ tPermits' = tCap'
        /\ phase' = IF Len(links) = 0 THEN "returned" ELSE "enrich"
    /\ UNCHANGED <<tool, tNow, tBudget, tRaised>>

\* enrich_one enters the semaphore with no budget left: the budget note is
\* the page content and the permit is given back without any await
AdmitLate(i) ==
    /\ phase = "enrich" /\ tState[i] = "pending" /\ tPermits > 0
    /\ BudgetExhausted(Remaining(tBudget, tNow))
    /\ tRemaining' = [tRemaining EXCEPT ![i] = Remaining(tBudget, tNow)]
    /\ tPage' = [tPage EXCEPT ![i] =
            SubstituteNone(tUrls[i],
                Str(TimeoutMarkdownNote(tUrls[i], "web_search time budget exceeded")))]
    /\ tKind' = [tKind EXCEPT ![i] = "budget"]
    /\ tState' = [tState EXCEPT ![i] = "done"]
    /\ UNCHANGED <<tool, phase, tUrls, tGiven, tNow, tBudget, tPermits, tRaised, tCap,
                   tConfigured>>

\* enrich_one enters the semaphore with budget left and awaits
\* wait_for(resolve_page_content_markdown(link), timeout=remaining)
Admit(i) ==
    /\ phase = "enrich" /\ tState[i] = "pending" /\ tPermits > 0
    /\ ~BudgetExhausted(Remaining(tBudget, tNow))
    /\ tPermits' = SemaphoreAcquire(tPermits)
    /\ tRemaining' = [tRemaining EXCEPT ![i] = Remaining(tBudget, tNow)]
    /\ tGiven' = [tGiven EXCEPT ![i] = Remaining(tBudget, tNow)]
    /\ tState' = [tState EXCEPT ![i] = "running"]
    /\ UNCHANGED <<tool, phase, tUrls, tKind, tPage, tNow, tBudget, tRaised, tCap, tConfigured>>

\* the caller cancels web_search while gather is awaited: every enrich_one
\* task is cancelled; a task inside "async with semaphore" gives its permit
\* back as the block is left, a task still waiting for a permit never had one
ToolCancelled ==
    /\ tool = "web_search" /\ phase = "enrich"
    /\ tState' = [i \in 1 .. Len(tUrls) |->
                    IF tState[i] = "done" THEN "done" ELSE "cancelled"]
    /\ tKind' = [i \in 1 .. Len(tUrls) |->
                    IF tState[i] = "done" THEN tKind[i] ELSE "cancelled"]
    /\ tPermits' = IF \E i \in 1 .. Len(tUrls) : tState[i] = "running"
                   THEN ReleaseAll(tPermits,
                            Cardinality({i \in 1 .. Len(tUrls) : tState[i] = "running"}))
                   ELSE tPermits
    /\ phase' = "cancelled"
    /\ UNCHANGED <<tool, tUrls, tPage, tGiven, tNow, tBudget, tRaised, tCap, tConfigured, tRemaining>>

\* scope of the timeout note of each tool
TimeoutScope == IF tool = "get_content" THEN "tool time budget exceeded" ELSE ""

\* except asyncio.TimeoutError and except Exception: a timeout and every
\* exception of the resolver are caught
HandlerCatchesTimeoutOnly(outcome) == outcome.kind = "timeout"

HandlerCatches(outcome) == outcome.kind \in {"timeout", "raise"}

\* the candidate is finished with this outcome; in web_search the permit
\* is given back as the body of "async with semaphore" is left; an
\* exception no handler catches leaves the tool
Finished(i, outcome) ==
    /\ tState' = [tState EXCEPT ![i] = "done"]
    /\ tPermits' = IF tool = "web_search" THEN SemaphoreRelease(tPermits) ELSE tPermits
    /\ IF outcome.kind = "value" \/ HandlerCatches(outcome)
       THEN /\ tPage' = [tPage EXCEPT ![i] =
                            PageContent(tUrls[i], outcome, TimeoutScope)]
            /\ tKind' = [tKind EXCEPT ![i] =
                    IF outcome.kind = "value" /\ outcome.value.isNone THEN "none_value"
                    ELSE outcome.kind]
            /\ UNCHANGED <<phase, tRaised, tCap, tConfigured, tRemaining>>
       ELSE /\ tKind' = [tKind EXCEPT ![i] = "propagated"]
            /\ tRaised' = TRUE
            /\ phase' = "returned"
            /\ UNCHANGED tPage
    /\ UNCHANGED <<tool, tUrls, tGiven, tNow, tBudget, tCap, tConfigured, tRemaining>>

\* resolve_page_content_markdown returns or raises within the timeout
ResolveEnds(i) ==
    /\ phase \in {"enrich", "resolve"} /\ tState[i] = "running"
    /\ \E outcome \in ResolveOutcomes(tUrls[i]) : Finished(i, outcome)

\* wait_for raises TimeoutError: the given timeout has elapsed
ResolveTimesOut(i) ==
    /\ phase \in {"enrich", "resolve"} /\ tState[i] = "running"
    /\ tNow >= tBudget
    /\ Finished(i, TimeoutOutcome)

\* gather returns (web_search) or the single resolution is over
\* (get_content): the tool returns its response
ToolReturns ==
    /\ phase \in {"enrich", "resolve"}
    /\ \A i \in 1 .. Len(tUrls) : tState[i] = "done"
    /\ phase' = "returned"
    /\ UNCHANGED <<tool, tUrls, tState, tKind, tPage, tGiven, tNow, tBudget, tPermits,
                   tRaised, tCap, tConfigured, tRemaining>>

\* time passes
Tick ==
    /\ phase \notin {"returned", "cancelled"}
    /\ tNow < MaxTime
    /\ tNow' = tNow + 1
    /\ UNCHANGED <<tool, phase, tUrls, tState, tKind, tPage, tGiven, tBudget, tPermits,
                   tRaised, tCap, tConfigured, tRemaining>>

ToolFrame == UNCHANGED <<poolVars, supVars, resVars, workVars, bud, rq, dg, cf, sr, cli, life, se, wtodo, tResp>>

ToolNext ==
    \/ SearchReturns /\ ToolFrame
    \/ \E i \in 1 .. Len(tUrls) : AdmitLate(i) /\ ToolFrame
    \/ \E i \in 1 .. Len(tUrls) : Admit(i) /\ ToolFrame
    \/ \E i \in 1 .. Len(tUrls) : ResolveEnds(i) /\ ToolFrame
    \/ \E i \in 1 .. Len(tUrls) : ResolveTimesOut(i) /\ ToolFrame
    \/ ToolReturns /\ ToolFrame
    \/ ToolCancelled /\ ToolFrame
    \/ Tick /\ ToolFrame

\* C4: when a tool has returned, no exception left it, every page_content is
\* a string, and every page_content that replaces a missing resolver result
\* (None, exception, timeout, no budget) contains "Source: <url>" for its url.
C4_PageContentAlwaysString ==
    phase = "returned" =>
        /\ ~tRaised
        /\ \A i \in 1 .. Len(tUrls) :
            /\ tState[i] = "done"
            /\ ~tPage[i].isNone
            /\ tKind[i] # "value" =>
                    Contains(tPage[i].text, <<"Source: ">> \o tUrls[i])

\* a tool returned after resolutions that gave None, raised and timed out
C4_Witness ==
    /\ phase = "returned"
    /\ tool = "web_search"
    /\ Len(tUrls) = 2
    /\ tKind[1] = "none_value"
    /\ tKind[2] \in {"raise", "timeout"}

\* resolutions in progress: candidates inside wait_for
InProgress == Cardinality({i \in 1 .. Len(tUrls) : tState[i] = "running"})

\* C12: in a web_search call the semaphore is created with
\* min(clamp(configured, 1, 5), number of results) permits, never more
\* resolutions than that are in progress, every permit that is not free is
\* held by a resolution in progress, and all permits are free once the call
\* has returned or was cancelled.
C12_AtMostCapInProgress ==
    (tool = "web_search" /\ phase # "search" /\ Len(tUrls) > 0) =>
        /\ tCap = Min(Max(1, Min(tConfigured, 5)), Len(tUrls))
        /\ InProgress <= tCap
        /\ tPermits = tCap - InProgress
        /\ phase \in {"returned", "cancelled"} => tPermits = tCap

\* two results under a configured cap of 0 (clamped to 1): one resolution
\* is in progress and holds the only permit, the other waits at the gate
C12_Witness ==
    /\ tool = "web_search" /\ phase = "enrich"
    /\ Len(tUrls) = 2
    /\ tConfigured = 0 /\ tCap = 1
    /\ tPermits = 0
    /\ tState = <<"running", "pending">>

\* the note of a candidate admitted with no budget left
BudgetExceededNote(url) ==
    <<"_Failed to retrieve page content: TimeoutError", ": ",
      "web_search time budget exceeded", "_">> \o SourceLine(url)

\* C13: a candidate of web_search that passes the gate when the budget has
\* already elapsed ends at once with the budget-exceeded note as its
\* page_content, and resolve_page_content_markdown is never awaited for it;
\* a resolution is in progress only with a positive timeout.
C13_LateAdmissionSkipsResolver ==
    /\ [](\A i \in 1 .. Len(tUrls) : tState[i] = "running" => tGiven[i] > 0)
    /\ [][\A i \in 1 .. Len(tUrls) :
            (/\ tool = "web_search" /\ phase = "enrich"
             /\ tState[i] = "pending"
             /\ tBudget - tNow <= 0
             /\ tState'[i] # "pending") =>
                \/ tState'[i] = "cancelled"
                \/ /\ tState'[i] = "done"
                   /\ tGiven'[i] = 0
                   /\ tPage'[i] = Str(BudgetExceededNote(tUrls[i]))]_vars

\* a candidate was admitted after the deadline next to one that was
\* admitted in time
C13_Witness ==
    /\ tool = "web_search"
    /\ Len(tUrls) = 2
    /\ tNow >= tBudget
    /\ tKind[1] \in {"value", "timeout"}
    /\ tState[2] = "done" /\ tKind[2] = "budget" /\ tGiven[2] = 0
    /\ tPage[2] = Str(BudgetExceededNote(tUrls[2]))

\* the remaining budget at admission (web_search) or the whole budget
\* (get_content, which starts its only resolution at time 0)
tRemainingOrTotal(i) == IF tRemaining[i] = NotRead THEN tBudget ELSE tRemaining[i]

\* the note of a resolution that ran out of the time it was given
ExpectedTimeoutNote(url) ==
    <<"_Failed to retrieve page content: TimeoutError">>
        \o (IF tool = "get_content" THEN <<": ", "tool time budget exceeded">> ELSE <<>>)
        \o <<"_">> \o SourceLine(url)

\* C14: a resolution ends by timeout only when the time it was given has
\* elapsed; its page_content is then the timeout note, which names
\* TimeoutError and contains "Source: <url>"; the other candidates are left
\* as they are, and no exception leaves the tool.
C14_TimeoutGivesNote ==
    /\ [](~tRaised)
    /\ [][\A i \in 1 .. Len(tUrls) :
            (tState[i] = "running" /\ tKind'[i] = "timeout") =>
                /\ tNow >= (tBudget - tRemainingOrTotal(i)) + tGiven[i]
                /\ tState'[i] = "done"
                /\ tPage'[i] = Str(ExpectedTimeoutNote(tUrls[i]))
                /\ Contains(tPage'[i].text, <<"Source: ">> \o tUrls[i])
                /\ \A j \in (1 .. Len(tUrls)) \ {i} :
                        /\ tState'[j] = tState[j]
                        /\ tKind'[j] = tKind[j]
                        /\ tPage'[j] = tPage[j]]_vars

\* in one web_search call a resolution timed out and another one gave a page
C14_Witness ==
    /\ tool = "web_search" /\ phase = "returned"
    /\ Len(tUrls) = 2
    /\ tKind[1] = "timeout"
    /\ tPage[1] = Str(ExpectedTimeoutNote(tUrls[1]))
    /\ tKind[2] = "value"

\* a candidate that reads the remaining budget gets no more than any
\* candidate that read it before
RemainingNonIncreasing ==
    \A i, j \in 1 .. Len(tRemaining) :
        (/\ Len(tRemaining') = Len(tRemaining)
         /\ tRemaining[i] # NotRead
         /\ tRemaining[j] = NotRead
         /\ tRemaining'[j] # NotRead) => tRemaining'[j] <= tRemaining[i]

\* C18: the remaining budget of a web_search call, total minus the time
\* elapsed since the call started, is non-increasing over the call's lifetime
\* and is never negative for any candidate that reads it, candidates admitted
\* after the deadline included.
C18_RemainingNonIncreasingNeverNegative ==
    /\ [][RemainingNonIncreasing]_vars
    /\ [](\A i \in 1 .. Len(tRemaining) : tRemaining[i] # NotRead => tRemaining[i] >= 0)

(***************************************************************************)
(* resolver and loader: properties                                         *)
(***************************************************************************)
FallbackStages == {"github_issue", "github_discussion", "wikipedia"}

DirectStages == {"stackexchange", "arxiv"}

StageOrder == <<"stackexchange", "github_issue", "github_discussion", "wikipedia", "arxiv">>

\* the stage the url is committed to: the first in the order whose parse accepts
FirstMatch(match) ==
    IF match = {} THEN "none"
    ELSE StageOrder[CHOOSE i \in 1 .. 5 :
            /\ StageOrder[i] \in match
            /\ \A j \in 1 .. (i - 1) : StageOrder[j] \notin match]

CallsOf(out, fns) == {i \in 1 .. Len(out.calls) : out.calls[i].fn \in fns}

FetchFns == {
    "fetch_stackexchange_thread_markdown", "fetch_github_issue_thread_markdown",
    "fetch_github_discussion_thread_markdown", "fetch_wikipedia_article_markdown",
    "fetch_arxiv_paper_markdown" }

Loaded == LoadUrlAsMarkdown(rUrl, rEnv.fetched)

ParseFn(stage) ==
    CASE stage = "stackexchange" -> "parse_stackexchange_url"
      [] stage = "github_issue" -> "parse_github_issue_url"
      [] stage = "github_discussion" -> "parse_github_discussion_url"
      [] stage = "wikipedia" -> "parse_wikipedia_url"
      [] stage = "arxiv" -> "parse_arxiv_url"

FetchFn(stage) ==
    CASE stage = "stackexchange" -> "fetch_stackexchange_thread_markdown"
      [] stage = "github_issue" -> "fetch_github_issue_thread_markdown"
      [] stage = "github_discussion" -> "fetch_github_discussion_thread_markdown"
      [] stage = "wikipedia" -> "fetch_wikipedia_article_markdown"
      [] stage = "arxiv" -> "fetch_arxiv_paper_markdown"

\* positions of the calls of fn in the log of the resolver
Positions(fn) == CallsOf(rOut, {fn})

\* C28: the stages are tried in the order StackExchange, GitHub Issue,
\* GitHub Discussion, Wikipedia, arXiv, universal: each parse is called at
\* most once and after the parses of the earlier stages; the fetch of a
\* stage is called only after its own parse accepted and every earlier
\* parse refused; a refused parse is followed by no fetch of that stage;
\* once a parse accepts, no later specialized stage is parsed or fetched;
\* and the universal loader is tried first only when every parse refused.
C28_StagesInFixedOrder ==
    rOut.called =>
        \A i \in 1 .. 5 :
            LET stage == StageOrder[i] IN
            /\ Cardinality(Positions(ParseFn(stage))) <= 1
            /\ Cardinality(Positions(FetchFn(stage))) <= 1
            /\ \A j \in 1 .. (i - 1) :
                  \A p \in Positions(ParseFn(stage)) :
                      \E q \in Positions(ParseFn(StageOrder[j])) : q < p
            /\ Positions(FetchFn(stage)) # {} =>
                  /\ stage \in rEnv.match
                  /\ \A j \in 1 .. (i - 1) : StageOrder[j] \notin rEnv.match
                  /\ \A f \in Positions(FetchFn(stage)) :
                        \E p \in Positions(ParseFn(stage)) : p < f
            /\ stage \notin rEnv.match => Positions(FetchFn(stage)) = {}
            /\ (stage \in rEnv.match /\ Positions(ParseFn(stage)) # {}) =>
                  \A j \in (i + 1) .. 5 :
                      /\ Positions(ParseFn(StageOrder[j])) = {}
                      /\ Positions(FetchFn(StageOrder[j])) = {}
            /\ \A u \in Positions("load_url_as_markdown") :
                  /\ u = Len(rOut.calls)
                  /\ rEnv.match = {} => Positions(ParseFn(stage)) # {}

\* GitHub Discussion and arXiv both accept the url: three parses and the
\* GitHub Discussion fetch were called, nothing of Wikipedia or arXiv
C28_Witness ==
    /\ rOut.called
    /\ rEnv.match = {"github_discussion", "arxiv"}
    /\ ~rEnv.raises
    /\ rOut.calls = << Call("parse_stackexchange_url", rUrl),
                       Call("parse_github_issue_url", rUrl),
                       Call("parse_github_discussion_url", rUrl),
                       Call("fetch_github_discussion_thread_markdown", rUrl) >>

C6_DirectStageFailureReturnsNote ==
    (rOut.called /\ FirstMatch(rEnv.match) \in DirectStages /\ rEnv.raises) =>
        /\ CallsOf(rOut, {"load_url_as_markdown"}) = {}
        /\ rOut.fetches = 0
        /\ ~rOut.value.isNone
        /\ Head(rOut.value.text) = "_Failed to retrieve "
        /\ Contains(rOut.value.text, <<"Source: ">> \o rUrl)

\* the arXiv fetch raised and the arXiv note came back
C6_Witness ==
    /\ rOut.called /\ FirstMatch(rEnv.match) = "arxiv" /\ rEnv.raises
    /\ rOut.value = Str(DirectFailNote("arXiv", rEnv.exc, rUrl))

C8_PdfGivesNone ==
    lOut.called =>
        /\ (~UrlParseRaises(rUrl) /\ EndsWith(Lower(UrlPath(rUrl)), PdfSuffix)) =>
                (lOut.value.isNone /\ lOut.fetches = 0)
        /\ (rEnv.fetched.kind = "html" /\ rEnv.fetched.html # <<>>
                /\ Head(rEnv.fetched.html) = "%PDF-") => lOut.value.isNone

\* an upper-case .PDF path was skipped without a fetch
C8_Witness ==
    /\ lOut.called
    /\ rUrl = <<Origin, "/", "a", ".", "P", "D", "F">>
    /\ lOut.value.isNone /\ lOut.fetches = 0

(***************************************************************************)
(* nodriver_worker: the render worker process (_main_async, _fetch_html)   *)
(***************************************************************************)
NoExit == 0 - 1

NoExc == [name |-> "", msg |-> <<>>]

\* KINDLY_NODRIVER_RETRY_ATTEMPTS as read from the environment
AttemptConfigs ==
    { [kind |-> "unset", value |-> 0], [kind |-> "invalid", value |-> 0] }
        \cup { [kind |-> "int", value |-> v] : v \in {0, 1, 2, 7} }

\* _resolve_start_retry_attempts
ResolveStartRetryAttempts(raw) ==
    LET value == IF raw.kind = "int" THEN raw.value ELSE 3
    IN  Max(1, Min(value, 5))

\* str.lower on the phrases the error messages are made of
LowerPhrase(t) ==
    CASE t = "Failed to connect to browser" -> "failed to connect to browser"
      [] t = "Connection refused" -> "connection refused"
      [] t = "DevToolsActivePort" -> "devtoolsactiveport"
      [] t = "DevTools endpoint did not become ready" ->
             "devtools endpoint did not become ready"
      [] t = "Chromium exited early" -> "chromium exited early"
      [] t = "Navigation timed out" -> "navigation timed out"
      [] OTHER -> t

LowerMessage(msg) == [i \in 1 .. Len(msg) |-> LowerPhrase(msg[i])]

\* every launch error is taken for retryable
IsRetryableAnyError(exc) == TRUE

\* _is_retryable_browser_connect_error
IsRetryableBrowserConnectError(exc) ==
    LET message == LowerMessage(exc.msg)
    IN  \/ Contains(message, <<"failed to connect to browser">>)
        \/ Contains(message, <<"connection refused">>)
        \/ Contains(message, <<"devtoolsactiveport">>)
        \/ Contains(message, <<"devtools endpoint did not become ready">>)

\* errors of one launch attempt, by the step that raises them
PortError == [name |-> "OSError", msg |-> <<"no free port">>]

ReadyErrors ==
    { [name |-> "RuntimeError", msg |-> <<"Chromium exited early", " (code=1)">>],
      [name |-> "RuntimeError",
       msg |-> <<"DevTools endpoint did not become ready", " in time">>] }

ConnectErrors ==
    { [name |-> "Exception", msg |-> <<"Failed to connect to browser">>],
      [name |-> "ConnectionRefusedError", msg |-> <<"[Errno 111] ", "Connection refused">>],
      [name |-> "RuntimeError", msg |-> <<"DevToolsActivePort", " file doesn't exist">>],
      [name |-> "ValueError", msg |-> <<>>] }

NavErrors ==
    { [name |-> "TimeoutError", msg |-> <<"Navigation timed out", " after 50.0s">>],
      [name |-> "ConnectionRefusedError", msg |-> <<"Connection refused">>],
      [name |-> "KeyError", msg |-> <<"frame", " ">>] }

\* the document: ordinary text, the empty string, text with a lone surrogate
WorkerHtmls == { <<"<html>", "x">>, <<>>, <<"<html>", "SURROGATE">> }

\* str.encode("utf-8", errors="strict") succeeds
Encodable(html) == \A i \in 1 .. Len(html) : html[i] # "SURROGATE"

\* str.rstrip
RECURSIVE RStrip(_)
RStrip(s) ==
    IF s # <<>> /\ s[Len(s)] \in {" ", "\n", "\t", "\r"}
    THEN RStrip(SubSeq(s, 1, Len(s) - 1))
    ELSE s

\* _emit_diag: one marker line on the error channel when diagnostics are on
EmitDiag(log, stage) ==
    IF kCfg.diag THEN Append(log, <<DiagPrefix, stage, "\n">>) ELSE log

\* _safe_write_text
SafeWriteText(log, text) == Append(log, RStrip(text) \o <<"\n">>)

\* only the type of the exception is written
ErrorTextNameOnly(exc) == <<exc.name>>

\* f"{type(exc).__name__}: {exc}"
ErrorText(exc) == <<exc.name, ":", " ">> \o exc.msg

\* the environment variables and the binary names tried, in order
BrowserEnvKeys ==
    <<"KINDLY_BROWSER_EXECUTABLE_PATH", "BROWSER_EXECUTABLE_PATH", "CHROME_BIN", "CHROME_PATH">>

BrowserNames ==
    <<"chromium", "google-chrome", "google-chrome-stable", "chrome", "chromium-browser">>

\* the --browser-executable-path argument, the environment and what
\* shutil.which finds on PATH
ExeInputs ==
    [explicit : {NoneValue, Str(<<" ">>), Str(<<" ", "/opt/explicit", " ">>)},
     env : { e \in [1 .. 4 -> {NoneValue, Str(<<" ">>), Str(<<"/env/chrome", " ">>)}] :
                \A i \in 2 .. 4 : e[i] # Str(<<" ">>) },
     which : {{}, {1}, {2}, {3}, {4}, {5}, {2, 4}, {3, 5}, 1 .. 5}]

\* os.environ.get(key) or ""
GetOrEmpty(value) == IF value.isNone THEN <<>> ELSE value.text

RECURSIVE FirstEnvPath(_, _)
FirstEnvPath(exe, i) ==
    IF i > Len(BrowserEnvKeys) THEN NoneValue
    ELSE LET value == StripBlanks(GetOrEmpty(exe.env[i]))
         IN  IF value # <<>> THEN Str(<<BrowserEnvKeys[i]>> \o value)
             ELSE FirstEnvPath(exe, i + 1)

RECURSIVE FirstWhich(_, _)
FirstWhich(exe, i) ==
    IF i > Len(BrowserNames) THEN NoneValue
    ELSE IF i \in exe.which THEN Str(<<"/usr/bin/", BrowserNames[i]>>)
    ELSE FirstWhich(exe, i + 1)

\* the environment is consulted before the explicit argument
ResolveBrowserExecutablePathEnvFirst(exe) ==
    IF ~FirstEnvPath(exe, 1).isNone THEN FirstEnvPath(exe, 1)
    ELSE IF ~exe.explicit.isNone /\ StripBlanks(exe.explicit.text) # <<>>
    THEN Str(StripBlanks(exe.explicit.text))
    ELSE FirstWhich(exe, 1)

\* _resolve_browser_executable_path; a path taken from the environment is
\* written with the name of its variable in front, to tell the four apart
ResolveBrowserExecutablePath(exe) ==
    IF ~exe.explicit.isNone /\ StripBlanks(exe.explicit.text) # <<>>
    THEN Str(StripBlanks(exe.explicit.text))
    ELSE IF ~FirstEnvPath(exe, 1).isNone THEN FirstEnvPath(exe, 1)
    ELSE FirstWhich(exe, 1)

\* no browser process, nothing launched, no cleanup yet
NoChrome ==
    [proc |-> "none", browser |-> FALSE, phase |-> FALSE, exe |-> NoneValue,
     ran |-> NoneValue, alive |-> 0, launched |-> 0, terminated |-> 0,
     cleanups |-> 0, stops |-> 0, stages |-> <<>>]

\* await _terminate_process(chrome_proc); chrome_proc = None
TerminateChromeProc(c) ==
    IF c.proc = "none" THEN c
    ELSE [c EXCEPT !.proc = "none", !.alive = @ - 1, !.terminated = @ + 1]

\* the browser is stopped whatever stop_browser says
CleanupAlwaysStops(c, stop_browser, raises) ==
    LET counted == [c EXCEPT !.cleanups = @ + 1, !.stages = Append(@, "cleanup")]
    IN  IF raises THEN counted
        ELSE TerminateChromeProc(IF c.browser THEN [counted EXCEPT !.stops = @ + 1]
                              ELSE counted)

\* _cleanup(stop_browser); raises: closing a page or stopping the browser
\* raises, the exception is swallowed and the rest of the body is skipped
Cleanup(c, stop_browser, raises) ==
    LET counted == [c EXCEPT !.cleanups = @ + 1, !.stages = Append(@, "cleanup")]
    IN  IF raises THEN counted
        ELSE TerminateChromeProc(IF c.browser /\ stop_browser
                              THEN [counted EXCEPT !.stops = @ + 1]
                              ELSE counted)

\* the configurations explored: every executable input with one launch
\* attempt, every other setting with four executable inputs, and a referer
\* with and without reuse
SomeExeInputs ==
    { exe \in ExeInputs :
        /\ exe.explicit \in {NoneValue, Str(<<" ", "/opt/explicit", " ">>)}
        /\ \A i \in 1 .. 4 : exe.env[i] = NoneValue
        /\ exe.which \in {{}, {4}} }

WorkConfigs ==
    [diag : BOOLEAN, attempts : AttemptConfigs, reuse : BOOLEAN, remote : BOOLEAN,
     referer : {FALSE}, exe : SomeExeInputs]
        \cup [diag : {FALSE}, attempts : {[kind |-> "int", value |-> 1]}, reuse : {FALSE},
              remote : {FALSE}, referer : {FALSE}, exe : ExeInputs]
        \cup [diag : {FALSE}, attempts : {[kind |-> "int", value |-> 2]}, reuse : BOOLEAN,
              remote : {TRUE}, referer : {TRUE}, exe : SomeExeInputs]

WorkIdle ==
    /\ kpc = "idle"
    /\ kCfg = [diag |-> FALSE, attempts |-> [kind |-> "unset", value |-> 0],
               reuse |-> FALSE, remote |-> FALSE, referer |-> FALSE,
               exe |-> [explicit |-> NoneValue, env |-> [i \in 1 .. 4 |-> NoneValue],
                        which |-> {}]]
    /\ kAttempt = 0
    /\ kLaunches = 0
    /\ kNavs = 0
    /\ kChrome = NoChrome
    /\ kExc = NoExc
    /\ kHtml = NoneValue
    /\ kOut = <<>>
    /\ kErrText = <<>>
    /\ kExit = NoExit

WorkInit ==
    /\ kpc = "start"
    /\ kCfg \in WorkConfigs
    /\ kAttempt = 0
    /\ kLaunches = 0
    /\ kNavs = 0
    /\ kChrome = NoChrome
    /\ kExc = NoExc
    /\ kHtml = NoneValue
    /\ kOut = <<>>
    /\ kErrText = <<>>
    /\ kExit = NoExit

\* _main_async up to the call of _fetch_html
WorkStart ==
    /\ kpc = "start"
    /\ kErrText' = EmitDiag(kErrText, "worker.start")
    /\ kpc' = "fetch"
    /\ UNCHANGED <<kCfg, kAttempt, kLaunches, kNavs, kChrome, kExc, kHtml, kOut, kExit>>

\* _fetch_html raises before any browser is touched
FetchRaisesEarly(exc) ==
    /\ kpc = "fetch"
    /\ kExc' = exc
    /\ kpc' = "failed"
    /\ UNCHANGED <<kCfg, kAttempt, kLaunches, kNavs, kChrome, kHtml, kOut, kErrText, kExit>>

FetchImportFails ==
    FetchRaisesEarly([name |-> "RuntimeError", msg |-> <<"nodriver is required">>])

FetchReuseUnconfigured ==
    /\ kCfg.reuse /\ ~kCfg.remote
    /\ FetchRaisesEarly([name |-> "RuntimeError",
                         msg |-> <<"reuse_browser requested but remote host/port was not provided.">>])

NoBrowserError ==
    [name |-> "RuntimeError",
     msg |-> <<"No Chromium-based browser executable found. ",
               "Install Chromium/Chrome or set ", "KINDLY_BROWSER_EXECUTABLE_PATH",
               " to the browser binary path.">>]

FetchNoBrowser ==
    /\ ~kCfg.reuse /\ ResolveBrowserExecutablePath(kCfg.exe).isNone
    /\ FetchRaisesEarly(NoBrowserError)

\* the configuration is resolved: the launch loop or the reuse path begins
FetchConfigured ==
    /\ kpc = "fetch"
    /\ \/ ~kCfg.reuse /\ ~ResolveBrowserExecutablePath(kCfg.exe).isNone
       \/ kCfg.reuse /\ kCfg.remote
    /\ kErrText' = EmitDiag(kErrText, "worker.config")
    /\ kChrome' = [kChrome EXCEPT !.phase = TRUE,
                                  !.exe = IF kCfg.reuse THEN NoneValue
                                          ELSE ResolveBrowserExecutablePath(kCfg.exe),
                                  !.stages = IF kCfg.reuse THEN @
                                             ELSE Append(@, "resolve-executable")]
    /\ kpc' = IF kCfg.reuse THEN "connect" ELSE "launch"
    /\ UNCHANGED <<kCfg, kAttempt, kLaunches, kNavs, kExc, kHtml, kOut, kExit>>

StartRetryAttempts == ResolveStartRetryAttempts(kCfg.attempts)

\* the except clause of one launch attempt
AttemptFails(exc) ==
    /\ kExc' = exc
    /\ kChrome' = TerminateChromeProc(kChrome)
    /\ kErrText' = EmitDiag(kErrText, "worker.launch_error")
    /\ kpc' = IF kAttempt >= StartRetryAttempts - 1 \/ ~IsRetryableBrowserConnectError(exc)
              THEN "outer_except"
              ELSE "backoff"

\* one pass of the loop begins: _pick_free_port raises
LaunchPortFails ==
    /\ kpc = "launch"
    /\ kAttempt < StartRetryAttempts
    /\ kLaunches' = kLaunches + 1
    /\ AttemptFails(PortError)
    /\ UNCHANGED <<kCfg, kAttempt, kNavs, kHtml, kOut, kExit>>

\* one pass of the loop begins: _launch_chromium
LaunchChromium ==
    /\ kpc = "launch"
    /\ kAttempt < StartRetryAttempts
    /\ kLaunches' = kLaunches + 1
    /\ kChrome' = [kChrome EXCEPT !.proc = "running", !.ran = kChrome.exe,
                                  !.alive = @ + 1, !.launched = @ + 1,
                                  !.stages = Append(@, "launch")]
    /\ kErrText' = EmitDiag(kErrText, "worker.launch_attempt")
    /\ kpc' = "wait_ready"
    /\ UNCHANGED <<kCfg, kAttempt, kNavs, kExc, kHtml, kOut, kExit>>

\* _wait_for_devtools_ready
WaitReadyOk ==
    /\ kpc = "wait_ready"
    /\ kChrome' = [kChrome EXCEPT !.stages = Append(@, "wait-ready")]
    /\ kpc' = "connect"
    /\ UNCHANGED <<kCfg, kAttempt, kLaunches, kNavs, kExc, kHtml, kOut, kErrText, kExit>>

WaitReadyFails ==
    /\ kpc = "wait_ready"
    /\ \E exc \in ReadyErrors : AttemptFails(exc)
    /\ UNCHANGED <<kCfg, kAttempt, kLaunches, kNavs, kHtml, kOut, kExit>>

\* uc.start
ConnectOk ==
    /\ kpc = "connect"
    /\ kExc' = NoExc
    /\ kChrome' = [kChrome EXCEPT !.browser = TRUE, !.stages = Append(@, "attach")]
    /\ kpc' = "navigate"
    /\ UNCHANGED <<kCfg, kAttempt, kLaunches, kNavs, kHtml, kOut, kErrText, kExit>>

ConnectFails ==
    /\ kpc = "connect"
    /\ \E exc \in ConnectErrors :
          IF kCfg.reuse
          THEN kExc' = exc /\ kpc' = "outer_except" /\ UNCHANGED <<kChrome, kErrText>>
          ELSE AttemptFails(exc)
    /\ UNCHANGED <<kCfg, kAttempt, kLaunches, kNavs, kHtml, kOut, kExit>>

\* asyncio.sleep(backoff), then the next pass of the loop
Backoff ==
    /\ kpc = "backoff"
    /\ kAttempt' = kAttempt + 1
    /\ kpc' = "launch"
    /\ UNCHANGED <<kCfg, kLaunches, kNavs, kChrome, kExc, kHtml, kOut, kErrText, kExit>>

\* _navigate_and_extract: the referer is loaded first when one is given
NavigateReferer ==
    /\ kpc = "navigate"
    /\ kCfg.referer
    /\ kNavs' = kNavs + 1
    /\ kChrome' = [kChrome EXCEPT !.stages = Append(@, "navigate-referer")]
    /\ kpc' = "nav_target"
    /\ UNCHANGED <<kCfg, kAttempt, kLaunches, kExc, kHtml, kOut, kErrText, kExit>>

\* _navigate_and_extract: the target url is loaded
NavigateTarget ==
    /\ \/ kpc = "navigate" /\ ~kCfg.referer /\ kNavs' = kNavs + 1
       \/ kpc = "nav_target" /\ kNavs' = kNavs
    /\ kChrome' = [kChrome EXCEPT !.stages = Append(@, "navigate-target")]
    /\ kpc' = "settle"
    /\ UNCHANGED <<kCfg, kAttempt, kLaunches, kExc, kHtml, kOut, kErrText, kExit>>

\* _navigate_and_extract: asyncio.sleep(wait_seconds)
Settle ==
    /\ kpc = "settle"
    /\ kChrome' = [kChrome EXCEPT !.stages = Append(@, "settle")]
    /\ kpc' = "extract"
    /\ UNCHANGED <<kCfg, kAttempt, kLaunches, kNavs, kExc, kHtml, kOut, kErrText, kExit>>

NavigationPcs == {"navigate", "nav_target", "settle", "extract"}

\* the content is read, _run_navigation returns the document and the finally
\* clause of _fetch_html cleans up before _fetch_html returns
NavigateOk ==
    /\ kpc = "extract"
    /\ \E html \in WorkerHtmls : kHtml' = Str(html)
    /\ \E raises \in BOOLEAN :
          kChrome' = Cleanup([kChrome EXCEPT !.stages = Append(@, "extract-content")],
                             ~kCfg.reuse, raises)
    /\ kErrText' = EmitDiag(kErrText, "worker.done")
    /\ kpc' = "write"
    /\ UNCHANGED <<kCfg, kAttempt, kLaunches, kNavs, kExc, kOut, kExit>>

\* _run_navigation raises
NavigateFails ==
    /\ kpc \in NavigationPcs
    /\ kNavs' = IF kpc = "navigate" THEN kNavs + 1 ELSE kNavs
    /\ \E exc \in NavErrors : kExc' = exc
    /\ kpc' = "outer_except"
    /\ UNCHANGED <<kCfg, kAttempt, kLaunches, kChrome, kHtml, kOut, kErrText, kExit>>

\* the except and finally clauses around the launch loop and the reuse path
FetchExcept ==
    /\ kpc = "outer_except"
    /\ LET msg == LowerMessage(kExc.msg)
           wrap == \/ Contains(msg, <<"failed to connect to browser">>)
                   \/ Contains(msg, <<"devtools endpoint did not become ready">>)
       IN  /\ kExc' = IF wrap
                      THEN [name |-> "RuntimeError",
                            msg |-> IF kCfg.reuse
                                    THEN <<"Failed to connect to pooled browser">>
                                    ELSE <<"Failed to connect to browser", " after attempts">>]
                      ELSE kExc
           /\ kErrText' = IF wrap THEN kErrText ELSE EmitDiag(kErrText, "worker.error")
    /\ \E raises \in {FALSE, kChrome.browser} :
          kChrome' = Cleanup(kChrome, ~kCfg.reuse, raises)
    /\ kpc' = "failed"
    /\ UNCHANGED <<kCfg, kAttempt, kLaunches, kNavs, kHtml, kOut, kExit>>

\* _main_async: except Exception
MainAsyncExcept ==
    /\ kpc = "failed"
    /\ kErrText' = SafeWriteText(EmitDiag(kErrText, "worker.error"), ErrorText(kExc))
    /\ kExit' = 1
    /\ kpc' = "teardown"
    /\ UNCHANGED <<kCfg, kAttempt, kLaunches, kNavs, kChrome, kExc, kHtml, kOut>>

\* _main_async: _safe_write_bytes(original_stdout, html.encode(...)); the write
\* reaches the pipe or is dropped
WriteStdout ==
    /\ kpc = "write"
    /\ Encodable(kHtml.text)
    /\ \E delivered \in BOOLEAN :
          kOut' = IF delivered THEN Append(kOut, kHtml.text) ELSE kOut
    /\ kChrome' = [kChrome EXCEPT !.stages = Append(@, "emit")]
    /\ kExit' = 0
    /\ kpc' = "teardown"
    /\ UNCHANGED <<kCfg, kAttempt, kLaunches, kNavs, kExc, kHtml, kErrText>>

\* _main_async: the encode raises and the exception leaves asyncio.run;
\* main: except Exception
EncodeFails ==
    /\ kpc = "write"
    /\ ~Encodable(kHtml.text)
    /\ kExc' = [name |-> "UnicodeEncodeError", msg |-> <<"surrogates not allowed">>]
    /\ kErrText' = SafeWriteText(kErrText, ErrorText(kExc'))
    /\ kExit' = 1
    /\ kpc' = "teardown"
    /\ UNCHANGED <<kCfg, kAttempt, kLaunches, kNavs, kChrome, kHtml, kOut>>

\* asyncio.run closes the loop, main returns, SystemExit
WorkExit ==
    /\ kpc = "teardown"
    /\ kpc' = "exited"
    /\ UNCHANGED <<kCfg, kAttempt, kLaunches, kNavs, kChrome, kExc, kHtml, kOut, kErrText,
                   kExit>>

\* main: except KeyboardInterrupt, at any point while asyncio.run is on the
\* stack; the finally clause of _fetch_html cleans up when it is pending
Interrupt ==
    /\ kpc \notin {"idle", "exited"}
    /\ \E raises \in {FALSE, kChrome.browser} :
          kChrome' = IF kChrome.phase /\ kChrome.cleanups = 0
                     THEN Cleanup(kChrome, ~kCfg.reuse, raises)
                     ELSE kChrome
    /\ kExit' = 130
    /\ kpc' = "exited"
    /\ UNCHANGED <<kCfg, kAttempt, kLaunches, kNavs, kExc, kHtml, kOut, kErrText>>

WorkFrame == UNCHANGED <<poolVars, supVars, resVars, toolVars, bud, rq, dg, cf, sr, cli, life, se, wtodo, tResp>>

WorkNext ==
    \/ WorkStart /\ WorkFrame
    \/ FetchImportFails /\ WorkFrame
    \/ FetchReuseUnconfigured /\ WorkFrame
    \/ FetchNoBrowser /\ WorkFrame
    \/ FetchConfigured /\ WorkFrame
    \/ LaunchPortFails /\ WorkFrame
    \/ LaunchChromium /\ WorkFrame
    \/ WaitReadyOk /\ WorkFrame
    \/ WaitReadyFails /\ WorkFrame
    \/ ConnectOk /\ WorkFrame
    \/ ConnectFails /\ WorkFrame
    \/ Backoff /\ WorkFrame
    \/ NavigateReferer /\ WorkFrame
    \/ NavigateTarget /\ WorkFrame
    \/ Settle /\ WorkFrame
    \/ NavigateOk /\ WorkFrame
    \/ NavigateFails /\ WorkFrame
    \/ FetchExcept /\ WorkFrame
    \/ MainAsyncExcept /\ WorkFrame
    \/ WriteStdout /\ WorkFrame
    \/ EncodeFails /\ WorkFrame
    \/ WorkExit /\ WorkFrame
    \/ Interrupt /\ WorkFrame

(***************************************************************************)
(* nodriver_worker: properties                                             *)
(***************************************************************************)
\* the error channel, without the diagnostic marker lines
ErrorLines == SelectSeq(kErrText, LAMBDA line : Head(line) # DiagPrefix)

\* C15 as stated: the worker writes to its output channel at most once, only
\* the document, and only in a run that exits with code 0; a run that fails
\* has written nothing to the output channel, has written
\* '<ErrorType>: <message>' to the error channel and exits with 1, or with
\* 130 when interrupted.
C15_StdoutOnlyOnExitZero ==
    /\ Len(kOut) <= 1
    /\ kOut # <<>> => ~kHtml.isNone /\ kOut = <<kHtml.text>>
    /\ kpc = "exited" /\ kOut # <<>> => kExit = 0
    /\ kpc = "exited" /\ kExit # 0 =>
          /\ kOut = <<>>
          /\ kExit \in {1, 130}
          /\ kExit = 1 =>
                ErrorLines = <<RStrip(<<kExc.name, ":", " ">> \o kExc.msg) \o <<"\n">>>>

\* C15: the worker writes to its output channel at most once, only the
\* document, and only after the fetch has succeeded; the run then exits with
\* code 0, or with 130 when an interrupt arrives after the write. While an
\* error is being handled nothing has been written to the output channel; a
\* failed run exits with 1 after writing exactly one line
\* '<ErrorType>: <message>' (trailing whitespace stripped) to the error
\* channel, or with 130 when interrupted.
C15_StdoutOnlyAfterFetchSucceeded ==
    /\ Len(kOut) <= 1
    /\ kOut # <<>> =>
          /\ ~kHtml.isNone /\ kOut = <<kHtml.text>>
          /\ kExc = NoExc
          /\ kpc \in {"teardown", "exited"}
          /\ kExit \in {0, 130}
    /\ kExc # NoExc => kOut = <<>>
    /\ kpc = "exited" => kExit \in {0, 1, 130}
    /\ kpc = "exited" /\ kExit = 0 => ErrorLines = <<>>
    /\ kpc = "exited" /\ kExit = 1 =>
          /\ kOut = <<>>
          /\ kExc # NoExc
          /\ ErrorLines = <<RStrip(<<kExc.name, ":", " ">> \o kExc.msg) \o <<"\n">>>>

\* a run with diagnostics on whose navigation timed out has exited with 1
C15_Witness ==
    /\ kpc = "exited"
    /\ kExit = 1
    /\ kCfg.diag
    /\ kNavs = 1
    /\ kExc.name = "TimeoutError"
    /\ kOut = <<>>
    /\ Len(kErrText) > 1

\* the attempt count the configuration asks for
ConfiguredAttempts ==
    LET n == IF kCfg.attempts.kind = "int" THEN kCfg.attempts.value ELSE 3
    IN  IF n < 1 THEN 1 ELSE IF n > 5 THEN 5 ELSE n

\* the message names one of the retryable conditions
RecognizedRetryable(exc) ==
    \E i \in 1 .. Len(exc.msg) :
        exc.msg[i] \in {"Failed to connect to browser", "Connection refused",
                        "DevToolsActivePort", "DevTools endpoint did not become ready"}

\* positions after the launch loop has been left
LoopLeft == NavigationPcs \cup {"outer_except", "failed", "write", "teardown", "exited"}

\* a launch attempt is a pass of the loop; one after the first follows a
\* retryable error
AttemptOnlyAfterRetryable ==
    kLaunches' > kLaunches =>
        (kpc = "launch" /\ kNavs = 0 /\ (kLaunches > 0 => RecognizedRetryable(kExc)))

\* an attempt that fails with an error not recognized leaves the loop at once
OtherErrorLeavesLoop ==
    (/\ kpc \in {"launch", "wait_ready", "connect"}
     /\ kExc' # NoExc
     /\ kExc' # kExc
     /\ ~RecognizedRetryable(kExc')) => kpc' = "outer_except"

\* once the loop is left no launch follows
NoLaunchAfterLoop ==
    kpc \in LoopLeft => (kpc' \in LoopLeft /\ kLaunches' = kLaunches)

\* C16: the number of launch attempts never exceeds the configured count
\* (default 3, clamped to 1..5); an attempt after the first is made only after
\* an error recognized as retryable; an attempt that fails with any other
\* error, the browser exiting early included, leaves the loop at once, and
\* once the loop is left no launch follows; navigation starts at most once.
C16_LaunchRetryPolicy ==
    /\ [](kLaunches <= ConfiguredAttempts /\ kNavs <= 1)
    /\ [][AttemptOnlyAfterRetryable]_vars
    /\ [][OtherErrorLeavesLoop]_vars
    /\ [][NoLaunchAfterLoop]_vars

\* with the default configuration a third attempt has failed after two
\* retryable errors and the loop is left
C16_Witness ==
    /\ kCfg.attempts.kind = "unset"
    /\ ~kCfg.reuse
    /\ kLaunches = 3
    /\ kAttempt = 2
    /\ kpc = "outer_except"
    /\ RecognizedRetryable(kExc)

\* the candidates in the order of the claim: the explicit argument, the
\* four variables, the five names on PATH; blank candidates do not count
NonEmptyCandidate(c) == ~c.isNone /\ \E k \in 1 .. Len(c.text) : c.text[k] # " "

Candidates(exe) ==
    <<exe.explicit>>
        \o [i \in 1 .. 4 |-> IF NonEmptyCandidate(exe.env[i])
                              THEN Str(<<BrowserEnvKeys[i]>> \o exe.env[i].text)
                              ELSE NoneValue]
        \o [i \in 1 .. 5 |-> IF i \in exe.which THEN Str(<<"/usr/bin/", BrowserNames[i]>>)
                              ELSE NoneValue]

NoCandidate(exe) == \A i \in 1 .. 10 : ~NonEmptyCandidate(Candidates(exe)[i])

FirstCandidate(exe) ==
    Candidates(exe)[CHOOSE i \in 1 .. 10 :
        /\ NonEmptyCandidate(Candidates(exe)[i])
        /\ \A j \in 1 .. (i - 1) : ~NonEmptyCandidate(Candidates(exe)[j])]

\* C22: without reuse, the executable is the first non-empty candidate among
\* the explicit argument, KINDLY_BROWSER_EXECUTABLE_PATH,
\* BROWSER_EXECUTABLE_PATH, CHROME_BIN, CHROME_PATH and the PATH search for
\* chromium, google-chrome, google-chrome-stable, chrome, chromium-browser,
\* and every launch runs it; when there is none, the worker fails with an
\* error that names KINDLY_BROWSER_EXECUTABLE_PATH, without a launch, a
\* launch attempt, a backoff or a navigation.
C22_ExecutableResolutionOrder ==
    ~kCfg.reuse /\ kpc # "idle" =>
        /\ kChrome.phase =>
              /\ ~NoCandidate(kCfg.exe)
              /\ ~kChrome.exe.isNone
              /\ kChrome.exe.text = StripBlanks(FirstCandidate(kCfg.exe).text)
        /\ kChrome.launched > 0 => kChrome.ran = kChrome.exe
        /\ NoCandidate(kCfg.exe) =>
              /\ ~kChrome.phase
              /\ kChrome.launched = 0 /\ kLaunches = 0 /\ kAttempt = 0 /\ kNavs = 0
              /\ kpc \notin NavigationPcs \cup {"launch", "wait_ready", "connect", "backoff", "write"}
              /\ (kpc = "failed" /\ kExc.msg # <<"nodriver is required">>) =>
                    /\ kExc.name = "RuntimeError"
                    /\ Contains(kExc.msg, <<"KINDLY_BROWSER_EXECUTABLE_PATH">>)
              /\ kExit \in {NoExit, 1, 130}

\* the argument is blank, the first variable is blank, CHROME_BIN is set
\* and chrome is on PATH: the browser named by CHROME_BIN was launched
C22_Witness ==
    /\ ~kCfg.reuse
    /\ kCfg.exe.explicit = Str(<<" ">>)
    /\ kCfg.exe.env[1] = Str(<<" ">>)
    /\ kCfg.exe.env[2] = NoneValue
    /\ kCfg.exe.env[3] = Str(<<"/env/chrome", " ">>)
    /\ 4 \in kCfg.exe.which
    /\ kChrome.launched = 1
    /\ kChrome.ran = Str(<<"CHROME_BIN", "/env/chrome">>)

\* the place of a logged step in the order of the claim
StageRank(stage) ==
    CASE stage = "resolve-executable" -> 1
      [] stage = "launch" -> 2
      [] stage = "wait-ready" -> 3
      [] stage = "attach" -> IF kCfg.reuse THEN 2 ELSE 3
      [] stage = "navigate-referer" -> 4
      [] stage = "navigate-target" -> 5
      [] stage = "settle" -> 6
      [] stage = "extract-content" -> 7
      [] stage = "emit" -> 8
      [] stage = "cleanup" -> 9

\* the steps of the attempt that succeeded: from the last launch on
LastAttemptFrom ==
    LET log == kChrome.stages
        launches == {i \in 1 .. Len(log) : log[i] = "launch"}
    IN  IF launches = {} THEN 1
        ELSE CHOOSE i \in launches : \A j \in launches : j <= i

SuccessfulRun == kpc = "exited" /\ kExit = 0

\* C31: on a successful run the stages follow the order resolve-executable,
\* launch-or-attach, wait-ready, navigate (referer, then target), settle,
\* extract-content, emit, cleanup: no stage is begun after a later one, and
\* the payload is emitted before the cleanup begins.
C31_StagesInOrderEmitBeforeCleanup ==
    SuccessfulRun =>
        LET log == kChrome.stages IN
        /\ \A i \in 1 .. Len(log) : \A j \in (i + 1) .. Len(log) :
              (i >= LastAttemptFrom \/ log[i] = "resolve-executable") =>
                  StageRank(log[i]) <= StageRank(log[j])
        /\ \E e \in 1 .. Len(log) : log[e] = "emit"
        /\ \E c \in 1 .. Len(log) : log[c] = "cleanup"
        /\ kCfg.referer => \E r \in 1 .. Len(log) : log[r] = "navigate-referer"

\* the order the code follows: everything up to extract-content as in the
\* claim, then cleanup, then emit
C31_StagesInOrderCleanupBeforeEmit ==
    SuccessfulRun =>
        LET log == kChrome.stages
            n == Len(log)
        IN  /\ n >= 2 /\ log[n] = "emit" /\ log[n - 1] = "cleanup"
            /\ \A i \in 1 .. (n - 2) : \A j \in (i + 1) .. (n - 2) :
                  (i >= LastAttemptFrom \/ log[i] = "resolve-executable") =>
                      StageRank(log[i]) <= StageRank(log[j])
            /\ \A i \in 1 .. (n - 2) : log[i] \notin {"emit", "cleanup"}

\* _fetch_html has returned or raised after the browser phase began
FetchLeft == kChrome.phase /\ kpc \in {"failed", "write", "teardown", "exited"}

\* a browser is launched only when no launched browser is alive
LaunchOnlyWhenNoneAlive ==
    kChrome'.launched > kChrome.launched => kChrome.alive = 0 /\ kChrome.proc = "none"

\* C29: a browser launched by a failed attempt is terminated before the next
\* attempt launches another, at most one launched browser is alive at any
\* time, and after _fetch_html returned or raised none is alive: as many
\* were terminated as were launched.
C29_LaunchedBrowsersTerminated ==
    /\ [][LaunchOnlyWhenNoneAlive]_vars
    /\ [](kChrome.alive <= 1)
    /\ [](FetchLeft => kChrome.alive = 0 /\ kChrome.terminated = kChrome.launched)

\* C30: the cleanup runs once on every path out of _fetch_html after the
\* browser phase began and never twice; attached to a pooled browser it
\* stops no browser and terminates no process; a browser is stopped or a
\* process terminated by the cleanup only when the worker launched the
\* browser itself.
C30_CleanupOnceAndOnlyOwnBrowser ==
    /\ kChrome.cleanups <= 1
    /\ FetchLeft => kChrome.cleanups = 1
    /\ ~kChrome.phase => kChrome.cleanups = 0
    /\ kCfg.reuse =>
          kChrome.stops = 0 /\ kChrome.terminated = 0 /\ kChrome.launched = 0
    /\ (kChrome.stops > 0 \/ kChrome.terminated > 0) =>
          ~kCfg.reuse /\ kChrome.launched > 0
    /\ kChrome.stops <= 1

\* attached to a pooled browser, the navigation failed and the cleanup ran
\* once without stopping or terminating anything
C30_Witness ==
    /\ kCfg.reuse
    /\ kChrome.browser
    /\ kpc = "failed"
    /\ kNavs = 1
    /\ kChrome.cleanups = 1
    /\ kChrome.stops = 0 /\ kChrome.terminated = 0

\* the worker launched the browser itself, the document came back and the
\* cleanup stopped the browser and terminated the process
C30_WitnessOwnBrowser ==
    /\ ~kCfg.reuse
    /\ kpc = "write"
    /\ kChrome.cleanups = 1
    /\ kChrome.stops = 1 /\ kChrome.terminated = 1 /\ kChrome.launched = 1

(***************************************************************************)
(* The render timeout budget: _resolve_worker_timeout_details in the       *)
(* worker, the outer timeout in fetch_html_via_nodriver. Durations are     *)
(* integers in units of 0.04 s, inputs are multiples of 0.2 s, so that     *)
(* 0.2 * value is exact.                                                   *)
(***************************************************************************)
\* largest configured total, in steps of 0.2 s
MaxTimeoutSteps == 3001

Seconds(x) == 25 * x

\* KINDLY_HTML_TOTAL_TIMEOUT_SECONDS as read from the environment
TimeoutInputs ==
    { [kind |-> "unset", value |-> 0], [kind |-> "invalid", value |-> 0] }
        \cup { [kind |-> "float", value |-> 5 * n] : n \in (0 - 2) .. MaxTimeoutSteps }

\* UniversalHtmlLoaderConfig.total_timeout_seconds
ConfigTotalTimeout == Seconds(60)

\* _resolve_worker_timeout_details
ResolveWorkerTimeoutDetails(raw) ==
    LET parsed == IF raw.kind = "float" THEN raw.value ELSE Seconds(60)
        value == IF parsed <= 0 THEN Seconds(60) ELSE parsed
        clamped_value == Max(Seconds(1), Min(value, Seconds(600)))
        grace == Min(Seconds(10), Max(Seconds(5), clamped_value \div 5))
        effective == Max(Seconds(1), clamped_value - grace)
    IN  [effective |-> effective, clamped_value |-> clamped_value, grace |-> grace]

\* fetch_html_via_nodriver: timeout_seconds of the outer wait_for
ParentTimeoutSeconds(raw) ==
    LET parsed == IF raw.kind = "float" THEN raw.value ELSE ConfigTotalTimeout
        parsed_value == IF parsed <= 0 THEN ConfigTotalTimeout ELSE parsed
    IN  Max(Seconds(1), Min(parsed_value, Seconds(600)))

NotResolved == 0 - 1

BudIdle == bud = [raw |-> [kind |-> "unset", value |-> 0], worker |-> NotResolved,
                  parent |-> NotResolved]

BudInit ==
    \E raw \in TimeoutInputs :
        bud = [raw |-> raw, worker |-> NotResolved, parent |-> NotResolved]

\* the parent computes the outer timeout of the request
ParentResolves ==
    /\ bud.parent = NotResolved
    /\ bud' = [bud EXCEPT !.parent = ParentTimeoutSeconds(bud.raw)]

\* the worker, given the same environment, computes its own budget
WorkerResolves ==
    /\ bud.worker = NotResolved
    /\ bud' = [bud EXCEPT !.worker = ResolveWorkerTimeoutDetails(bud.raw).effective]

BudFrame == UNCHANGED <<poolVars, supVars, resVars, toolVars, workVars, rq, dg, cf, sr, cli, life, se, wtodo, tResp>>

BudNext ==
    \/ ParentResolves /\ BudFrame
    \/ WorkerResolves /\ BudFrame

\* C17: for every configured total T (after clamping to 1..600 s) the budget
\* the worker applies to itself is strictly smaller than the outer timeout
\* the parent applies to the same request.
C17_WorkerBudgetBelowParentTimeout ==
    bud.worker # NotResolved /\ bud.parent # NotResolved => bud.worker < bud.parent

(***************************************************************************)
(* One render request: the worker command fetch_html_via_nodriver builds   *)
(* and the reuse policy of chromium_pool                                   *)
(***************************************************************************)
\* KINDLY_NODRIVER_REUSE_BROWSER as read from the environment
ReuseInputs == {"", "0", "false", "no", "off", "1", "FALSE", " off "}

\* str.strip().lower() on the values above
StripLower(raw) ==
    CASE raw = "FALSE" -> "false"
      [] raw = " off " -> "off"
      [] OTHER -> raw

\* _resolve_reuse_enabled
ResolveReuseEnabled(raw) == StripLower(raw) \notin {"0", "false", "no", "off"}

RenderIdle ==
    rq = [raw |-> "", referer |-> FALSE, browserPath |-> FALSE, diag |-> FALSE,
          pc |-> "idle", cmd |-> {}]

RenderInit ==
    \E raw \in ReuseInputs, referer, browserPath, diag \in BOOLEAN :
        rq = [raw |-> raw, referer |-> referer, browserPath |-> browserPath,
              diag |-> diag, pc |-> "called", cmd |-> {}]

\* cmd = [...], the optional --referer and --browser-executable-path
BuildCommand ==
    /\ rq.pc = "called"
    /\ rq' = [rq EXCEPT
                !.cmd = {"--url", "--user-agent", "--wait-seconds"}
                            \cup (IF rq.referer THEN {"--referer"} ELSE {})
                            \cup (IF rq.browserPath THEN {"--browser-executable-path"}
                                  ELSE {}),
                !.pc = "built"]

\* _run_pipe_probe, with diagnostics only
RunPipeProbe ==
    /\ rq.pc = "built" /\ rq.diag
    /\ rq' = [rq EXCEPT !.pc = "probed"]

\* asyncio.create_subprocess_exec(*cmd, ...)
SpawnWorker ==
    /\ \/ rq.pc = "built" /\ ~rq.diag
       \/ rq.pc = "probed"
    /\ rq' = [rq EXCEPT !.pc = "spawned"]

\* the worker is gone and fetch_html_via_nodriver returns or raises
RenderEnds ==
    /\ rq.pc = "spawned"
    /\ rq' = [rq EXCEPT !.pc = "ended"]

RenderFrame == UNCHANGED <<poolVars, supVars, resVars, toolVars, workVars, bud, dg, cf, sr, cli, life, se, wtodo, tResp>>

RenderNext ==
    \/ BuildCommand /\ RenderFrame
    \/ RunPipeProbe /\ RenderFrame
    \/ SpawnWorker /\ RenderFrame
    \/ RenderEnds /\ RenderFrame

\* C19: with reuse enabled a render request attaches its worker to a pooled
\* slot, acquired from the pool and released after the render; with reuse
\* disabled the worker gets a throwaway browser and no pool slot is acquired.
C19_ReuseAttachesPooledSlot ==
    LET attached == {"--reuse-browser", "--remote-host", "--remote-port"} \subseteq rq.cmd
        held == \E c \in Callers : pc[c] = "holding"
    IN  /\ rq.pc = "spawned" =>
              IF ResolveReuseEnabled(rq.raw)
              THEN attached /\ held
              ELSE "--reuse-browser" \notin rq.cmd /\ ~held
        /\ rq.pc = "ended" => ~held

(***************************************************************************)
(* _emit_diag: one diagnostic event of the worker. Texts are ASCII without *)
(* characters that JSON escapes, so a text of n characters serializes to   *)
(* n characters between its quotes; the model keeps lengths.               *)
(***************************************************************************)
\* _DIAG_LINE_LIMIT
DIAG_LINE_LIMIT == 8000

\* text lengths are drawn in steps of DiagStep characters
DiagStep == 1000

MaxDiagSteps == 9

\* characters of {"request_id":"","stage":"","msg":"","elapsed_ms":,"data":}
EntryOverhead == 59

\* characters of the replacement entry without its texts and numbers
TruncatedEntryOverhead == 136

\* len(str(n)) for n >= 0
RECURSIVE Digits(_)
Digits(n) == IF n < 10 THEN 1 ELSE 1 + Digits(n \div 10)

\* len(json.dumps(entry)) of the entry built first
EntryLen(rid, stage, msg, elapsed, data) ==
    EntryOverhead + rid + stage + msg + Digits(elapsed) + data

\* len(json.dumps(entry)) of the replacement entry
TruncatedEntryLen(rid, stage, msg, elapsed, original_len) ==
    TruncatedEntryOverhead + rid + stage + msg + Digits(elapsed) + Digits(original_len)

\* _emit_diag: the entry that is written
EmitDiagEntry(rid, stage, msg, elapsed, data) ==
    LET payload == EntryLen(rid, stage, msg, elapsed, data)
    IN  IF payload > DIAG_LINE_LIMIT
        THEN [line_truncated |-> TRUE, original_len |-> payload,
              len |-> TruncatedEntryLen(rid, stage, msg, elapsed, payload)]
        ELSE [line_truncated |-> FALSE, original_len |-> 0, len |-> payload]

CoarseLens == { k * DiagStep : k \in 0 .. MaxDiagSteps }

\* lengths of the serialized data: the empty dict and larger ones, and the
\* ones that bring the entry to the limit and just next to it
DataLens(rid, stage, msg, elapsed) ==
    { 2 + n : n \in CoarseLens }
        \cup { n \in { DIAG_LINE_LIMIT - EntryLen(rid, stage, msg, elapsed, 0) + d :
                          d \in {0 - 1, 0, 1} } : n >= 2 }

NoEntry == [line_truncated |-> FALSE, original_len |-> 0, len |-> 0]

DiagIdle ==
    dg = [rid |-> 7, stage |-> 0, msg |-> 0, elapsed |-> 0, data |-> 2, pc |-> "idle",
          entry |-> NoEntry]

DiagInit ==
    \E rid \in {7, 36}, stage \in CoarseLens, msg \in CoarseLens, elapsed \in {0, 12345} :
        \E data \in DataLens(rid, stage, msg, elapsed) :
            dg = [rid |-> rid, stage |-> stage, msg |-> msg, elapsed |-> elapsed,
                  data |-> data, pc |-> "called", entry |-> NoEntry]

\* _emit_diag with diagnostics enabled
EmitDiagCall ==
    /\ dg.pc = "called"
    /\ dg' = [dg EXCEPT
                !.entry = EmitDiagEntry(dg.rid, dg.stage, dg.msg, dg.elapsed, dg.data),
                !.pc = "written"]

DiagFrame == UNCHANGED <<poolVars, supVars, resVars, toolVars, workVars, bud, rq, cf, sr, cli, life, se, wtodo, tResp>>

DiagNext == EmitDiagCall /\ DiagFrame

\* the length the event serializes to before any truncation
OriginalSerializedLen ==
    59 + dg.rid + dg.stage + dg.msg + Digits(dg.elapsed) + dg.data

\* C20: whenever a diagnostic event serializes to more characters than the
\* cap, the entry emitted instead carries the truncation flag (the key is
\* line_truncated) set to true and original_len equal to the original
\* serialized length, and the emitted entry itself does not exceed the cap,
\* whatever the stage name, the message and the payload.
C20_TruncatedEntryWithinCap ==
    dg.pc = "written" /\ OriginalSerializedLen > 8000 =>
        /\ dg.entry.line_truncated
        /\ dg.entry.original_len = OriginalSerializedLen
        /\ dg.entry.len <= 8000

(***************************************************************************)
(* Configuration resolvers: _resolve_sandbox_enabled of the worker and     *)
(* _resolve_tool_total_timeout_seconds of the server                       *)
(***************************************************************************)
\* os.geteuid(): the superuser, another user, absent (Windows), raising
EuidCases == {"root", "user", "absent", "raises"}

\* KINDLY_NODRIVER_SANDBOX as read from the environment
SandboxInputs ==
    {"unset", "", "0", "false", "no", "off", "1", "true", "yes", "on", "TRUE", " on ",
     " Off", "maybe", "2"}

\* (os.environ.get(key) or "").strip().lower() on the values above
EnvStripLower(raw) ==
    CASE raw = "unset" -> ""
      [] raw = "TRUE" -> "true"
      [] raw = " on " -> "on"
      [] raw = " Off" -> "off"
      [] OTHER -> raw

\* the setting alone decides, the superuser check is skipped
ResolveSandboxEnabledNoRootCheck(euid, raw) ==
    EnvStripLower(raw) \in {"1", "true", "yes", "on"}

\* _resolve_sandbox_enabled
ResolveSandboxEnabled(euid, raw) ==
    IF euid = "root" THEN FALSE
    ELSE LET raw_sandbox == EnvStripLower(raw)
         IN  IF raw_sandbox \in {"0", "false", "no", "off"} THEN FALSE
             ELSE IF raw_sandbox \in {"1", "true", "yes", "on"} THEN TRUE
             ELSE FALSE

\* KINDLY_TOOL_TOTAL_TIMEOUT_SECONDS and KINDLY_TOOL_TOTAL_TIMEOUT_MAX_SECONDS
\* as read from the environment, in whole seconds
FloatInputs(values) ==
    { [kind |-> "unset", value |-> 0], [kind |-> "invalid", value |-> 0] }
        \cup { [kind |-> "float", value |-> v] : v \in values }

\* _get_float_env
GetFloatEnv(raw, default) == IF raw.kind = "float" THEN raw.value ELSE default

\* _resolve_tool_total_timeout_seconds
ResolveToolTotalTimeoutSeconds(raw) ==
    LET value == GetFloatEnv(raw, 55)
    IN  Max(1, Min(value, 55))

ConfIdle == cf = [fn |-> "none", done |-> TRUE]

ConfInit ==
    \/ \E euid \in EuidCases, raw \in SandboxInputs :
          cf = [fn |-> "sandbox", done |-> FALSE, euid |-> euid, raw |-> raw,
                enabled |-> FALSE]
    \/ \E raw \in FloatInputs({0, 1, 30, 55, 90, 120, 700}),
          rawMax \in FloatInputs({90, 100, 600}) :
          cf = [fn |-> "tool_timeout", done |-> FALSE, raw |-> raw, rawMax |-> rawMax,
                seconds |-> 0]

\* the worker resolves the sandbox setting
SandboxResolved ==
    /\ cf.fn = "sandbox" /\ ~cf.done
    /\ cf' = [cf EXCEPT !.enabled = ResolveSandboxEnabled(cf.euid, cf.raw), !.done = TRUE]

\* a tool resolves its total budget
ToolTimeoutResolved ==
    /\ cf.fn = "tool_timeout" /\ ~cf.done
    /\ cf' = [cf EXCEPT !.seconds = ResolveToolTotalTimeoutSeconds(cf.raw), !.done = TRUE]

ConfFrame ==
    UNCHANGED <<poolVars, supVars, resVars, toolVars, workVars, bud, rq, dg, sr, cli, life, se, wtodo, tResp>>

ConfNext ==
    \/ SandboxResolved /\ ConfFrame
    \/ ToolTimeoutResolved /\ ConfFrame

\* C21: the sandbox is off when no setting is given, off whenever the
\* process runs as the superuser whatever the setting, and otherwise on
\* exactly when the setting, stripped and lowercased, is one of the enabling
\* values 1, true, yes, on; a disabling or unrecognized value gives off.
C21_SandboxDecision ==
    cf.fn = "sandbox" /\ cf.done =>
        LET setting == IF cf.raw \in {"TRUE"} THEN "true"
                       ELSE IF cf.raw = " on " THEN "on"
                       ELSE IF cf.raw = " Off" THEN "off"
                       ELSE cf.raw
        IN  /\ cf.raw = "unset" => ~cf.enabled
            /\ cf.euid = "root" => ~cf.enabled
            /\ cf.euid # "root" =>
                  (cf.enabled <=> setting \in {"1", "true", "yes", "on"})

\* an ordinary user has set the sandbox to " on " and the sandbox is on
C21_Witness ==
    /\ cf.fn = "sandbox" /\ cf.done
    /\ cf.euid = "user"
    /\ cf.raw = " on "
    /\ cf.enabled

\* C24: _resolve_tool_total_timeout_seconds returns 120 when
\* KINDLY_TOOL_TOTAL_TIMEOUT_SECONDS is unset or not a number, and otherwise
\* the configured value, capped by KINDLY_TOOL_TOTAL_TIMEOUT_MAX_SECONDS when
\* that is a valid number.
C24_ToolTimeoutDefault120CappedByMax ==
    cf.fn = "tool_timeout" /\ cf.done =>
        LET configured == IF cf.raw.kind = "float" THEN cf.raw.value ELSE 120
        IN  configured >= 1 =>
              cf.seconds = IF cf.rawMax.kind = "float"
                           THEN Min(configured, cf.rawMax.value)
                           ELSE configured

(***************************************************************************)
(* search_web (search/__init__.py): provider selection and fallback        *)
(***************************************************************************)
NoSearchExc == [type |-> "none", status |-> 0]

\* what a provider call can raise
HttpStatuses == {400, 401, 403, 404, 429, 500, 503}

ProviderExceptions(provider) ==
    { [type |-> t, status |-> 0] :
        t \in {IF provider = "serper" THEN "SerperConfigError" ELSE "TavilyConfigError",
               IF provider = "serper" THEN "SerperError" ELSE "TavilyError",
               "ConnectTimeout", "ConnectError", "ValueError", "CancelledError"} }
        \cup { [type |-> "HTTPStatusError", status |-> st] : st \in HttpStatuses }

\* the classes an exception is an instance of
ExceptionClasses(type) ==
    CASE type = "SerperConfigError" -> {"SerperConfigError", "SerperError", "Exception"}
      [] type = "TavilyConfigError" -> {"TavilyConfigError", "TavilyError", "Exception"}
      [] type = "ConnectTimeout" -> {"TimeoutException", "RequestError", "Exception"}
      [] type = "ConnectError" -> {"RequestError", "Exception"}
      [] type = "CancelledError" -> {"CancelledError"}
      [] OTHER -> {type, "Exception"}

IsInstance(exc, classes) == ExceptionClasses(exc.type) \cap classes # {}

\* the configuration errors are not told apart from the provider errors
ShouldFallbackNoConfigCheck(exc) ==
    IF IsInstance(exc, {"SerperError", "TavilyError"}) THEN TRUE
    ELSE IF IsInstance(exc, {"HTTPStatusError"})
         THEN exc.status >= 500 \/ exc.status = 429
    ELSE IsInstance(exc, {"TimeoutException", "RequestError"})

\* _should_fallback
ShouldFallback(exc) ==
    IF IsInstance(exc, {"SerperConfigError", "TavilyConfigError"}) THEN FALSE
    ELSE IF IsInstance(exc, {"SerperError", "TavilyError"}) THEN TRUE
    ELSE IF IsInstance(exc, {"HTTPStatusError"})
         THEN IF exc.status \in {401, 403, 400} THEN FALSE
              ELSE exc.status >= 500 \/ exc.status = 429
    ELSE IF IsInstance(exc, {"TimeoutException"}) THEN TRUE
    ELSE IF IsInstance(exc, {"RequestError"}) THEN TRUE
    ELSE FALSE

SearchIdle == sr = [pc |-> "idle"]

SearchInit ==
    \E has_serper \in BOOLEAN, has_tavily \in BOOLEAN, own_client \in BOOLEAN :
        sr = [pc |-> "start", has_serper |-> has_serper, has_tavily |-> has_tavily,
              own_client |-> own_client, calls |-> <<>>, exc |-> NoSearchExc,
              raised |-> NoSearchExc]

Primary == IF sr.has_serper THEN "serper" ELSE "tavily"

Secondary == IF sr.has_serper /\ sr.has_tavily THEN "tavily" ELSE "none"

\* search_web up to the call of the primary provider
SearchStart ==
    /\ sr.pc = "start"
    /\ IF ~sr.has_serper /\ ~sr.has_tavily
       THEN sr' = [sr EXCEPT !.pc = "raised",
                             !.raised = [type |-> "WebSearchProviderError", status |-> 0]]
       ELSE sr' = [sr EXCEPT !.pc = "primary", !.calls = Append(@, Primary)]

PrimaryReturns ==
    /\ sr.pc = "primary"
    /\ sr' = [sr EXCEPT !.pc = "returned"]

\* the primary provider raises: the except clause of search_web
PrimaryRaises(exc) ==
    /\ sr.pc = "primary"
    /\ IF IsInstance(exc, {"Exception"}) /\ Secondary # "none" /\ ShouldFallback(exc)
       THEN sr' = [sr EXCEPT !.pc = "secondary", !.exc = exc,
                             !.calls = Append(@, Secondary)]
       ELSE sr' = [sr EXCEPT !.pc = "raised", !.exc = exc, !.raised = exc]

SecondaryReturns ==
    /\ sr.pc = "secondary"
    /\ sr' = [sr EXCEPT !.pc = "returned"]

\* the secondary provider raises
SecondaryRaises(exc) ==
    /\ sr.pc = "secondary"
    /\ sr' = [sr EXCEPT !.pc = "raised",
                        !.raised = IF sr.own_client /\ IsInstance(exc, {"Exception"})
                                   THEN [type |-> "WebSearchProviderError", status |-> 0]
                                   ELSE exc]

SearchFrame ==
    UNCHANGED <<poolVars, supVars, resVars, toolVars, workVars, bud, rq, dg, cf, cli, life, se, wtodo, tResp>>

SearchNext ==
    \/ SearchStart /\ SearchFrame
    \/ PrimaryReturns /\ SearchFrame
    \/ (\E exc \in ProviderExceptions(Primary) : PrimaryRaises(exc)) /\ SearchFrame
    \/ SecondaryReturns /\ SearchFrame
    \/ (\E exc \in ProviderExceptions("tavily") : SecondaryRaises(exc)) /\ SearchFrame

\* a configuration or authentication error: a provider's configuration
\* error, or HTTP 400, 401 or 403
ConfigOrAuthFailure(exc) ==
    \/ exc.type \in {"SerperConfigError", "TavilyConfigError"}
    \/ exc.type = "HTTPStatusError" /\ exc.status \in {400, 401, 403}

\* a transient failure: HTTP 429 or 5xx, a timeout, a network error
TransientFailure(exc) ==
    \/ exc.type = "HTTPStatusError" /\ (exc.status = 429 \/ exc.status >= 500)
    \/ exc.type \in {"ConnectTimeout", "ConnectError"}

\* a provider-level error that is not a configuration error
ProviderLevelFailure(exc) == exc.type \in {"SerperError", "TavilyError"}

PrimaryFailed == sr.pc \in {"secondary", "returned", "raised"} /\ sr.exc # NoSearchExc

\* a configuration or authentication failure of the primary provider is
\* raised without a call to another provider
ConfigFailureRaisedWithoutFallback ==
    PrimaryFailed /\ ConfigOrAuthFailure(sr.exc) =>
        /\ sr.pc = "raised"
        /\ sr.raised = sr.exc
        /\ sr.calls = <<Primary>>

ContextInputs ==
    {NoneValue, Str(<<>>), Str(<<" ">>), Str(<<"codex">>), Str(<<" ", "codex", " ">>)}

\* KINDLY_MCP_CONTEXT before the call: absent, empty or set
EnvContextInputs == {NoneValue, Str(<<>>), Str(<<"existing">>)}

\* the arguments parse_known_args leaves over
ForwardedInputs ==
    { <<>>, <<"--">>, <<"--", "--http">>, <<"--http", "--host", "h", "--port", "8000">>,
      <<"--transport=sse">>, <<"--transport", "sse">>, <<"--host", "h">>,
      <<"--host=h">>, <<"--stdio">>, <<"--", "--host", "h">>, <<"--port", "8000", "--sse">>,
      <<"--streamable-http">> }

\* arg.split("=", 1)[0]
SplitEqHead(arg) ==
    CASE arg = "--transport=sse" -> "--transport"
      [] arg = "--host=h" -> "--host"
      [] OTHER -> arg

\* _has_transport_flag
HasTransportFlag(argv) ==
    \E i \in 1 .. Len(argv) :
        SplitEqHead(argv[i]) \in {"--stdio", "--sse", "--http", "--streamable-http", "--transport"}

\* main, lines 48-52: the arguments handed to the server entry point
ForwardedArgs(args) ==
    LET dropped == IF args # <<>> /\ Head(args) = "--" THEN Tail(args) ELSE args
    IN  IF ~HasTransportFlag(dropped) THEN <<"--stdio">> \o dropped ELSE dropped

\* the variable is removed whatever it was before
RestoreContextByRemoval(previous_context) == NoneValue

\* main, the finally clause: KINDLY_MCP_CONTEXT after the call
RestoreContext(previous_context) ==
    IF previous_context.isNone THEN NoneValue ELSE previous_context

CliIdle == cli = [pc |-> "idle"]

CliInit ==
    \E context \in ContextInputs, env \in EnvContextInputs, args \in ForwardedInputs :
        cli = [pc |-> "start", context |-> context, args |-> args, before |-> env,
               env |-> env, previous_context |-> NoneValue, argv |-> <<>>,
               observed |-> NoneValue]

\* main up to the call of the server entry point
CliMain ==
    /\ cli.pc = "start"
    /\ LET env == IF ~cli.context.isNone /\ StripBlanks(cli.context.text) # <<>>
                  THEN Str(StripBlanks(cli.context.text))
                  ELSE cli.env
       IN  cli' = [cli EXCEPT !.pc = "serving",
                              !.previous_context = cli.env,
                              !.env = env,
                              !.argv = ForwardedArgs(cli.args),
                              !.observed = env]

\* the server entry point changes the variable itself
ServerMainSetsContext(value) ==
    /\ cli.pc = "serving"
    /\ cli.env # value
    /\ cli' = [cli EXCEPT !.env = value]

\* the server entry point returns and the finally clause runs
ServerMainReturns ==
    /\ cli.pc = "serving"
    /\ cli' = [cli EXCEPT !.pc = "returned", !.env = RestoreContext(cli.previous_context)]

\* the server entry point raises and the finally clause runs
ServerMainRaises ==
    /\ cli.pc = "serving"
    /\ cli' = [cli EXCEPT !.pc = "raised", !.env = RestoreContext(cli.previous_context)]

CliFrame ==
    UNCHANGED <<poolVars, supVars, resVars, toolVars, workVars, bud, rq, dg, cf, sr, life, se, wtodo, tResp>>

CliNext ==
    \/ CliMain /\ CliFrame
    \/ (\E value \in {NoneValue, Str(<<"server">>)} : ServerMainSetsContext(value)) /\ CliFrame
    \/ ServerMainReturns /\ CliFrame
    \/ ServerMainRaises /\ CliFrame

\* an argument that selects a transport, with or without "=value"
IsTransportFlag(arg) ==
    arg \in {"--stdio", "--sse", "--http", "--streamable-http", "--transport", "--transport=sse"}

\* the forwarded arguments: what was left over, without a leading "--"
Forwarded == IF cli.args # <<>> /\ Head(cli.args) = "--" THEN Tail(cli.args) ELSE cli.args

\* C25: cli.main leaves KINDLY_MCP_CONTEXT as it was before the call
\* (absent stays absent, a previous value is restored) whether the server
\* entry point returns or raises; during the call the entry point sees the
\* value of --context, stripped, when one was given; and the entry point
\* receives "--stdio" followed by the forwarded arguments exactly when none
\* of them is a transport flag, the forwarded arguments as they are
\* otherwise.
C25_ContextRestoredStdioDefault ==
    /\ cli.pc \in {"returned", "raised"} => cli.env = cli.before
    /\ cli.pc \in {"serving", "returned", "raised"} =>
          /\ (~cli.context.isNone /\ StripBlanks(cli.context.text) # <<>>) =>
                cli.observed = Str(StripBlanks(cli.context.text))
          /\ IF \E i \in 1 .. Len(Forwarded) : IsTransportFlag(Forwarded[i])
             THEN cli.argv = Forwarded
             ELSE cli.argv = <<"--stdio">> \o Forwarded

\* the variable was set to "existing", --context codex was given with no
\* transport flag, the entry point saw "codex" and raised, and the variable
\* is "existing" again
C25_Witness ==
    /\ cli.pc = "raised"
    /\ cli.before = Str(<<"existing">>)
    /\ cli.context = Str(<<"codex">>)
    /\ cli.observed = Str(<<"codex">>)
    /\ cli.argv = <<"--stdio">>
    /\ cli.env = Str(<<"existing">>)

(***************************************************************************)
(* fetch_html_via_nodriver: outer timeout and cancellation                 *)
(***************************************************************************)
RenderInterrupted == spc = "done" /\ sres \in {"TimeoutError", "CancelledError"}

\* C26: after a render ended by the outer timeout or by cancellation, the
\* worker subprocess and the browser process that the worker launched have
\* both exited when the supervisor raises.
C26_NoProcessLeftAfterInterruptedRender ==
    RenderInterrupted => wproc = "exited" /\ wbrowser # "running"

\* C27: when the outer timeout fired, the failure raised to the caller
\* carries the diagnostic tail captured from the worker so far, a final
\* line without trailing newline included.
C27_TimeoutFailureCarriesTail ==
    (spc = "done" /\ sres = "TimeoutError") =>
        /\ bufErr.buffer = <<>>
        /\ sout.detail = bufErr.tail

(***************************************************************************)
(* fetch_html_via_nodriver: outcome on normal completion                   *)
(***************************************************************************)
\* str.split("\n")
RECURSIVE SplitAtNewline(_)
SplitAtNewline(s) ==
    LET i == NewlineIndex(s) IN
    IF i = 0 THEN <<s>>
    ELSE <<SubSeq(s, 1, i - 1)>> \o SplitAtNewline(SubSeq(s, i + 1, Len(s)))

\* the ordinary lines of a text: carriage returns stripped, blank lines and
\* diagnostic lines left out
OrdinaryLines(text) ==
    LET segs == SplitAtNewline(text) IN
    { RStripCR(segs[i]) : i \in 1 .. Len(segs) } \
        ({<<>>} \cup { l \in { RStripCR(segs[i]) : i \in 1 .. Len(segs) } :
                            l # <<>> /\ l[1] = DiagPrefix })

\* what one segment of the text contributes to the tail
KeptLine(seg) ==
    LET l == RStripCR(seg) IN
    IF l = <<>> THEN <<>>
    ELSE IF l[1] = DiagPrefix THEN <<>>
    ELSE l \o <<"\n">>

RECURSIVE JoinKept(_)
JoinKept(segs) == IF segs = <<>> THEN <<>> ELSE KeptLine(Head(segs)) \o JoinKept(Tail(segs))

LastChars(s, n) == IF Len(s) <= n THEN s ELSE SubSeq(s, Len(s) - n + 1, Len(s))

\* the tail of a whole text, computed without regard to how it was chunked
ExpectedTail(text) == LastChars(JoinKept(SplitAtNewline(text)), MAX_STDERR_CHARS)

\* fetch_html_via_nodriver went back to its caller after gather completed
CompletedNormally == spc = "done" /\ sres \in {"html", "RuntimeError"}

\* C11 (as stated): on normal completion exit code 0 returns all of the
\* accumulated stdout and any other exit code raises a failure whose detail
\* contains every ordinary line of the worker's stderr text verbatim.
C11_DetailContainsStderrText ==
    CompletedNormally =>
        /\ (wcode = 0) = (sres = "html")
        /\ sres = "html" => sout.html = bufOut /\ pipeOut = 0
        /\ sres = "RuntimeError" =>
                \A l \in OrdinaryLines(Flatten(wErr)) : Contains(sout.detail, l)

\* C11 (amended): on normal completion exit code 0 returns all of the
\* accumulated stdout and any other exit code raises a failure whose detail
\* is the last MAX_STDERR_CHARS characters of the worker's ordinary stderr
\* lines, each followed by a newline, or 'unknown error' when there is none.
C11_DetailIsStderrTail ==
    CompletedNormally =>
        /\ (wcode = 0) = (sres = "html")
        /\ sres = "html" => sout.html = bufOut /\ pipeOut = 0
        /\ sres = "RuntimeError" =>
                /\ sout.exit = wcode
                /\ sout.detail = DetailOrUnknown(ExpectedTail(Flatten(wErr)))

\* the worker wrote a diagnostic line and an unterminated ordinary line and
\* exited with code 1: the failure detail carries the ordinary line
C11_Witness ==
    /\ CompletedNormally
    /\ wcode = 1
    /\ Flatten(wErr) = <<DiagPrefix, "a", "\n", "a">>
    /\ sout.detail = <<"a", "\n">>

(***************************************************************************)
(* get_chromium_pool: the process-wide pool                                *)
(***************************************************************************)
\* _POOL is None
NoPool == 0

\* module import: _POOL = None, _SHUTDOWN_REGISTERED = False, nothing
\* registered with atexit, no call of get_chromium_pool in progress
LifeInit ==
    life = [pools |-> 0, current |-> NoPool, registered |-> FALSE, hooks |-> 0,
            inits |-> 0, exits |-> 0,
            gpc |-> [c \in Callers |-> "idle"],
            diag |-> [c \in Callers |-> FALSE],
            got |-> [c \in Callers |-> NoPool],
            shut |-> "none", shutdowns |-> 0, before |-> <<>>]

\* _register_shutdown
RegisterShutdown(l) ==
    IF l.registered THEN l
    ELSE [l EXCEPT !.registered = TRUE, !.hooks = @ + 1]

\* get_chromium_pool, the block under _POOL_LOCK
ConstructAlways(l, diagnostics) ==
    RegisterShutdown([l EXCEPT !.pools = @ + 1,
                               !.current = l.pools + 1,
                               !.inits = IF diagnostics THEN @ + 1 ELSE @])

ConstructIfNone(l, diagnostics) ==
    IF l.current = NoPool
    THEN RegisterShutdown([l EXCEPT !.pools = @ + 1,
                                    !.current = l.pools + 1,
                                    !.inits = IF diagnostics THEN @ + 1 ELSE @])
    ELSE l

\* get_chromium_pool is called: the check outside the lock; when _POOL is
\* None the task goes on to await the lock and may be suspended there
GetPoolCall(c, diagnostics) ==
    /\ life.gpc[c] = "idle"
    /\ life.exits = 0
    /\ IF life.current # NoPool
       THEN life' = [life EXCEPT !.gpc[c] = "returned", !.got[c] = life.current,
                                 !.diag[c] = diagnostics]
       ELSE life' = [life EXCEPT !.gpc[c] = "lock", !.got[c] = NoPool,
                                 !.diag[c] = diagnostics]

\* the lock is taken; the block under it has no suspension point, so the
\* lock is free again when the step ends
GetPoolLocked(c) ==
    /\ life.gpc[c] = "lock"
    /\ LET l == ConstructIfNone(life, life.diag[c]) IN
        life' = [l EXCEPT !.gpc[c] = "returned", !.got[c] = l.current]

\* the caller goes on with the pool it received
GetPoolReturn(c) ==
    /\ life.gpc[c] = "returned"
    /\ life' = [life EXCEPT !.gpc[c] = "idle"]

\* interpreter exit: atexit runs every registered hook once
AtExit ==
    /\ life.exits = 0
    /\ life.hooks > 0
    /\ \A c \in Callers : life.gpc[c] # "returned"
    /\ life' = [life EXCEPT !.exits = life.hooks]

GetPoolFrame ==
    UNCHANGED <<poolVars, supVars, resVars, toolVars, workVars, bud, rq, dg, cf, sr, cli, se, wtodo, tResp>>

GetPoolNext ==
    \/ \E c \in Callers, diagnostics \in BOOLEAN : GetPoolCall(c, diagnostics) /\ GetPoolFrame
    \/ \E c \in Callers : GetPoolLocked(c) /\ GetPoolFrame
    \/ \E c \in Callers : GetPoolReturn(c) /\ GetPoolFrame
    \/ AtExit /\ GetPoolFrame

(***************************************************************************)
(* get_chromium_pool: properties                                           *)
(***************************************************************************)
\* C32: at most one ChromiumPool is ever constructed, every call that has
\* received a pool received that one, no pool exists before a call has gone
\* past the check, and at most one exit hook is registered (and run).
C32_OnePoolOneHook ==
    /\ life.pools <= 1
    /\ life.hooks <= 1
    /\ life.exits <= 1
    /\ \A c \in Callers : life.got[c] # NoPool => life.got[c] = 1 /\ life.current = 1
    /\ life.pools > 0 => \E c \in Callers : life.got[c] # NoPool \/ life.gpc[c] = "returned"
    /\ life.inits <= life.pools
    /\ life.registered <=> life.hooks = 1

\* two first calls were both past the outer check before the pool existed,
\* and both have received the one pool
C32_Witness ==
    \E a, b \in Callers :
        /\ a # b
        /\ life.gpc[a] = "returned" /\ life.gpc[b] = "returned"
        /\ life.got[a] = 1 /\ life.got[b] = 1
        /\ life.pools = 1 /\ life.hooks = 1

(***************************************************************************)
(* ChromiumPool: cancellation, repeated release, shutdown                  *)
(***************************************************************************)
MaxShutdowns == 2

\* ChromiumSlot.terminate_sync, effect on the slot: returns at once when
\* there is no process handle
TerminateSyncSlot(slot) ==
    IF slot.proc = NoProc THEN slot
    ELSE [slot EXCEPT !.proc = NoProc, !.dir = FALSE]

\* ChromiumSlot.terminate_sync, effect on the process table: terminate,
\* then kill after 0.2 s
TerminateSyncProcs(ps, slot) == TerminateProcess(ps, slot.proc)

\* a task suspended inside acquire: on queue.get, on the health probe, on
\* the launch of _start (profile directory and port are set, the process
\* handle is not yet), on the readiness wait of _start
SuspendedInAcquire == {"waiting", "probe", "start", "waitready"}

\* no task is between the raise of ensure_started and the terminate of the
\* handler of acquire, which it reaches without a suspension point
AtSuspensionPoints ==
    \A c \in Callers : pc[c] = "failed" => Alive(procs, slots[slotOf[c]].proc)

\* the task running acquire is cancelled: CancelledError is raised at the
\* suspension point and leaves acquire (it is no Exception)
AcquireCancelled(c) ==
    /\ pc[c] \in SuspendedInAcquire
    /\ IF pc[c] = "start"
       THEN \E port \in Ports :
                slots' = [slots EXCEPT ![slotOf[c]] = [@ EXCEPT !.dir = TRUE, !.port = port]]
       ELSE UNCHANGED slots
    /\ pc' = [pc EXCEPT ![c] = "cancelled"]
    /\ result' = [result EXCEPT ![c] = "cancelled"]
    /\ exitPath' = [exitPath EXCEPT ![c] = "cancelled"]
    /\ UNCHANGED <<queue, procs, confirmed, nextPid, slotOf, probedOld, life>>

\* _start, readiness wait of a process that a shutdown terminated in the
\* meantime: the wait sees the return code and raises
StartWaitAfterShutdown(c) ==
    /\ pc[c] = "waitready"
    /\ slots[slotOf[c]].proc = NoProc
    /\ pc' = [pc EXCEPT ![c] = "failed"]
    /\ UNCHANGED <<queue, slots, procs, confirmed, nextPid, slotOf, result, probedOld,
                   exitPath, life>>

\* release is called with a slot that is in the queue already
ReleaseAgain(c, s) ==
    /\ pc[c] = "idle"
    /\ InQueueCount(s) >= 1
    /\ Len(queue) <= PoolSize
    /\ queue' = QueuePut(queue, s)
    /\ UNCHANGED <<slots, procs, confirmed, nextPid, pc, slotOf, result, probedOld,
                   exitPath, life>>

\* ChromiumPool.shutdown_sync (the exit hook): every slot in one go
ShutdownSync ==
    /\ life.shutdowns < MaxShutdowns
    /\ life.shut # "async"
    /\ AtSuspensionPoints
    /\ procs' = [p \in Pids |->
                    IF \E s \in SlotIds : slots[s].proc = p
                    THEN TerminateSyncProcs(procs, slots[CHOOSE s \in SlotIds : slots[s].proc = p])[p]
                    ELSE procs[p]]
    /\ slots' = [s \in SlotIds |-> TerminateSyncSlot(slots[s])]
    /\ life' = [life EXCEPT !.shut = "sync", !.shutdowns = @ + 1, !.before = slots]
    /\ UNCHANGED <<queue, confirmed, nextPid, pc, slotOf, result, probedOld, exitPath>>

\* ChromiumPool.shutdown: one slot.terminate() per step, in the order of
\* pool.slots; the call returns with the last one
ShutdownStep(s) ==
    /\ life.shutdowns < MaxShutdowns
    /\ AtSuspensionPoints
    /\ \/ s = 0 /\ life.shut # "async"
       \/ s > 0 /\ life.shut = "async" /\ Len(life.before) = s
    /\ procs' = TerminateProcs(procs, slots[s])
    /\ slots' = [slots EXCEPT ![s] = TerminateSlot(slots[s])]
    /\ IF s = PoolSize - 1
       THEN life' = [life EXCEPT !.shut = "asyncdone", !.shutdowns = @ + 1,
                                 !.before = IF s = 0 THEN slots ELSE life.before]
       ELSE life' = [life EXCEPT !.shut = "async",
                                 !.before = IF s = 0 THEN <<slots[0]>>
                                            ELSE Append(life.before, slots[s])]
    /\ UNCHANGED <<queue, confirmed, nextPid, pc, slotOf, result, probedOld, exitPath>>

PoolApiFrame == UNCHANGED <<supVars, resVars, toolVars, workVars, bud, rq, dg, cf, sr, cli, se, wtodo, tResp>>

PoolApiNext ==
    \/ PoolNext
    \/ \E c \in Callers : AcquireCancelled(c) /\ PoolApiFrame
    \/ \E c \in Callers : StartWaitAfterShutdown(c) /\ PoolApiFrame
    \/ \E c \in Callers, s \in SlotIds : ReleaseAgain(c, s) /\ PoolApiFrame
    \/ ShutdownSync /\ PoolApiFrame
    \/ \E s \in SlotIds : ShutdownStep(s) /\ PoolApiFrame

(***************************************************************************)
(* ChromiumPool: cancellation, repeated release, shutdown: properties      *)
(***************************************************************************)
ShutdownCompletes == life'.shutdowns > life.shutdowns

SlotClean(slot) == slot.proc = NoProc /\ ~slot.dir

\* C33: when shutdown or shutdown_sync completes, every slot is without a
\* process handle and without a profile directory, and a shutdown of a pool
\* whose slots are all clean changes nothing.
C33_ShutdownLeavesSlotsClean ==
    [][ShutdownCompletes =>
        /\ \A s \in SlotIds : SlotClean(slots'[s])
        /\ (\A s \in SlotIds : SlotClean(slots[s])) => slots' = slots]_vars

\* C34: no slot is in the queue more than once and no slot is held by two
\* callers, also when release is called for a slot that is in the queue.
C34_ReleaseIdempotent ==
    \A s \in SlotIds : InQueueCount(s) <= 1 /\ Cardinality(Holders(s)) <= 1

\* C37: a slot taken by an acquire that was cancelled is in the queue.
C37_CancelledAcquireReturnsSlot ==
    \A c \in Callers :
        (pc[c] = "cancelled" /\ slotOf[c] # NoSlot) => InQueueCount(slotOf[c]) >= 1

(***************************************************************************)
(* _read_stderr_stream and _finalize_stderr_state on one text              *)
(***************************************************************************)
\* number of pieces a text is made of
MaxPieces == 4

\* pieces of what a worker writes (bytes): part of a line, a newline, a
\* CRLF-terminated line, a diagnostic line with a JSON object, a diagnostic
\* line with a JSON number, a character whose encoding takes two bytes
Pieces == { <<"a">>, <<"\n">>, <<"b", "\r", "\n">>,
            <<DiagPrefix, JsonObject, "\n">>, <<DiagPrefix, JsonNumber, "\n">>,
            <<LeadByte, ContinuationByte>> }

RECURSIVE TextsOf(_)
TextsOf(n) ==
    IF n = 0 THEN {<<>>}
    ELSE LET shorter == TextsOf(n - 1) IN
         shorter \cup {t \o p : t \in shorter, p \in Pieces}

StderrIdle == se = [pc |-> "idle"]

\* a worker has written a text; stderr_state = _StderrAccumulator()
StderrInit ==
    \E text \in TextsOf(MaxPieces) :
        se = [pc |-> "read", text |-> text, unread |-> text, seen |-> <<>>,
              state |-> NewStderrState]

\* _read_stderr_stream: stream.read returns the next k unread bytes
StderrRead ==
    /\ se.pc = "read"
    /\ \E k \in 1 .. Len(se.unread) :
        LET chunk == SubSeq(se.unread, 1, k) IN
        se' = [se EXCEPT !.unread = SubSeq(se.unread, k + 1, Len(se.unread)),
                         !.seen = @ \o Decode(chunk),
                         !.state = FeedStderrChunk(@, chunk, MAX_STDERR_CHARS)]

\* stream.read returns b"": the loop ends, and the supervisor finalizes
StderrEof ==
    /\ se.pc = "read"
    /\ se.unread = <<>>
    /\ se' = [se EXCEPT !.pc = "done",
                        !.state = FinalizeStderrState(@, MAX_STDERR_CHARS)]

StderrFrame ==
    UNCHANGED <<poolVars, supVars, resVars, toolVars, workVars, bud, rq, dg, cf, sr, cli, life, wtodo, tResp>>

StderrNext ==
    \/ StderrRead /\ StderrFrame
    \/ StderrEof /\ StderrFrame

(***************************************************************************)
(* _read_stderr_stream and _finalize_stderr_state: properties              *)
(***************************************************************************)
\* str.split("\n")
RECURSIVE SplitLines(_)
SplitLines(text) ==
    LET i == NewlineIndex(text) IN
    IF i = 0 THEN <<text>>
    ELSE <<SubSeq(text, 1, i - 1)>> \o SplitLines(SubSeq(text, i + 1, Len(text)))

\* the lines received so far, without their carriage returns: the complete
\* ones, and the unterminated last one once the stream has ended
ReceivedLines ==
    LET parts == SplitLines(se.seen)
        lines == IF se.pc = "done" THEN parts ELSE SubSeq(parts, 1, Len(parts) - 1)
    IN  [i \in 1 .. Len(lines) |-> RStripCR(lines[i])]

IsMarkerLine(line) == line # <<>> /\ Head(line) = DiagPrefix

IsTailLine(line) == line # <<>> /\ Head(line) # DiagPrefix

IsEventLine(line) == IsMarkerLine(line) /\ Tail(line) = <<JsonObject>>

IsBadMarkerLine(line) == IsMarkerLine(line) /\ Tail(line) # <<JsonObject>>

RECURSIVE JoinLines(_)
JoinLines(lines) ==
    IF lines = <<>> THEN <<>> ELSE Head(lines) \o <<"\n">> \o JoinLines(Tail(lines))

FirstItems(items, n) == IF Len(items) <= n THEN items ELSE SubSeq(items, 1, n)

Payloads(lines) == [i \in 1 .. Len(lines) |-> Tail(lines[i])]

\* C36: at every point of the consumption the tail is no longer than the
\* limit and is the last limit characters of the non-empty lines without
\* marker received so far, each with its newline; the events are the
\* payloads of the marker lines that are JSON objects, and the parse errors
\* are the first 3 payloads of the other marker lines.
C36_TailIsSuffixOfPlainLines ==
    se.pc # "idle" =>
        /\ Len(se.state.tail) <= MAX_STDERR_CHARS
        /\ se.state.tail =
              LastChars(JoinLines(SelectSeq(ReceivedLines, IsTailLine)), MAX_STDERR_CHARS)
        /\ se.state.worker_entries = Payloads(SelectSeq(ReceivedLines, IsEventLine))
        /\ se.state.parse_errors =
              FirstItems(Payloads(SelectSeq(ReceivedLines, IsBadMarkerLine)), ParseErrorSamples)

\* plain lines longer than the limit were received, then a marker line with
\* an object and one without: the tail is cut and holds neither
C36_Witness ==
    /\ se.pc = "done"
    /\ Len(JoinLines(SelectSeq(ReceivedLines, IsTailLine))) > MAX_STDERR_CHARS
    /\ Len(se.state.tail) = MAX_STDERR_CHARS
    /\ se.state.worker_entries # <<>>
    /\ se.state.parse_errors # <<>>

\* C40: whatever the chunks were, the accumulator ends as it does when the
\* whole text arrives in one chunk.
C40_ChunkingIrrelevant ==
    se.pc = "done" =>
        LET whole == FinalizeStderrState(
                        FeedStderrChunk(NewStderrState, se.text, MAX_STDERR_CHARS),
                        MAX_STDERR_CHARS) IN
        /\ se.state.worker_entries = whole.worker_entries
        /\ se.state.parse_errors = whole.parse_errors
        /\ se.state.tail = whole.tail

(***************************************************************************)
(* fetch_html_via_nodriver with a worker that blocks on full pipes         *)
(***************************************************************************)
\* number of writes an OS pipe takes before the writer blocks
PipeCapacity == 1

\* the same for the error channel, in characters
ErrPipeChars == PipeCapacity * 3

Channels == {"out", "err"}

RECURSIVE PlansOf(_)
PlansOf(n) ==
    IF n = 0 THEN {<<>>}
    ELSE LET shorter == PlansOf(n - 1) IN
         shorter \cup {Append(plan, ch) : plan \in shorter, ch \in Channels}

\* what a worker writes before it exits: any order of writes to the two
\* channels, at most MaxChunks to each
Plans ==
    {plan \in PlansOf(MaxChunks + 1) :
        \A ch \in Channels :
            Cardinality({i \in 1 .. Len(plan) : plan[i] = ch}) <= MaxChunks}

\* stderr_task is created next to stdout_task, before gather: it reads as
\* soon as there is something to read
StderrTaskReadsAfterStdout == tasks["stderr"] = "running" /\ tasks["stdout"] = "done"

StderrTaskReads == tasks["stderr"] = "running"

LiveSpawn == SupSpawn /\ wtodo' \in Plans

LiveSpawnFail == SupSpawnFail /\ UNCHANGED wtodo

\* write(2) on the output channel returns when the pipe has room
LiveWriteOut ==
    /\ wtodo # <<>> /\ Head(wtodo) = "out"
    /\ pipeOut < PipeCapacity
    /\ WorkerWriteOut
    /\ wtodo' = Tail(wtodo)

\* write(2) on the error channel returns when the pipe has room
LiveWriteErr ==
    /\ wtodo # <<>> /\ Head(wtodo) = "err"
    /\ wproc = "running"
    /\ \E chunk \in {<<"a">>, <<"b", "\r", "\n">>} :
        /\ Len(pipeErr) + Len(chunk) <= ErrPipeChars
        /\ pipeErr' = pipeErr \o chunk
        /\ wErr' = Append(wErr, chunk)
    /\ wtodo' = Tail(wtodo)
    /\ UNCHANGED <<spc, sres, pending, wproc, wcode, tasks, pipeOut, bufOut, bufErr, sout, wbrowser>>

\* the worker exits once it has written all it had to write
LiveWorkerExit == wtodo = <<>> /\ WorkerExit /\ UNCHANGED wtodo

LiveReadStdout == ReadStdout /\ UNCHANGED wtodo

LiveReadStderr == StderrTaskReads /\ ReadStderr /\ UNCHANGED wtodo

LiveDrainEof(t) == DrainEof(t) /\ UNCHANGED wtodo

LiveDrainFail(t) == DrainFail(t) /\ UNCHANGED wtodo

LiveHeartbeatDone == HeartbeatDone /\ UNCHANGED wtodo

LiveWaitDone == WaitDone /\ UNCHANGED wtodo

LiveGatherDone == SupGatherDone /\ UNCHANGED wtodo

LiveGatherError == SupGatherError /\ UNCHANGED wtodo

LiveFrame ==
    UNCHANGED <<poolVars, resVars, toolVars, workVars, bud, rq, dg, cf, sr, cli, life, se, tResp>>

SupLiveNext ==
    \/ LiveSpawn /\ LiveFrame
    \/ LiveSpawnFail /\ LiveFrame
    \/ LiveWriteOut /\ LiveFrame
    \/ LiveWriteErr /\ LiveFrame
    \/ LiveWorkerExit /\ LiveFrame
    \/ LiveReadStdout /\ LiveFrame
    \/ LiveReadStderr /\ LiveFrame
    \/ \E t \in {"stdout", "stderr"} : LiveDrainEof(t) /\ LiveFrame
    \/ \E t \in {"stdout", "stderr"} : LiveDrainFail(t) /\ LiveFrame
    \/ LiveHeartbeatDone /\ LiveFrame
    \/ LiveWaitDone /\ LiveFrame
    \/ LiveGatherDone /\ LiveFrame
    \/ LiveGatherError /\ LiveFrame

\* the event loop runs every task that is ready, the operating system runs
\* the worker, and create_subprocess_exec returns
LiveFairness ==
    /\ WF_vars((LiveSpawn \/ LiveSpawnFail) /\ LiveFrame)
    /\ WF_vars(LiveWriteOut /\ LiveFrame)
    /\ WF_vars(LiveWriteErr /\ LiveFrame)
    /\ WF_vars(LiveWorkerExit /\ LiveFrame)
    /\ WF_vars(LiveReadStdout /\ LiveFrame)
    /\ WF_vars(LiveReadStderr /\ LiveFrame)
    /\ WF_vars(LiveDrainEof("stdout") /\ LiveFrame)
    /\ WF_vars(LiveDrainEof("stderr") /\ LiveFrame)
    /\ WF_vars(LiveHeartbeatDone /\ LiveFrame)
    /\ WF_vars(LiveWaitDone /\ LiveFrame)
    /\ WF_vars(LiveGatherDone /\ LiveFrame)
    /\ WF_vars(LiveGatherError /\ LiveFrame)

(***************************************************************************)
(* fetch_html_via_nodriver with a blocking worker: properties              *)
(***************************************************************************)
\* C38: whatever the worker writes to the two channels and in whatever
\* order, fetch_html_via_nodriver eventually returns or raises.
C38_EventuallyReturnsOrRaises == <>(spc = "done")

\* the worker wrote more to the output channel than the pipe holds, and to
\* the error channel as well, and the supervisor returned the document
C38_Witness ==
    /\ spc = "done"
    /\ sres = "html"
    /\ wtodo = <<>>
    /\ bufOut > PipeCapacity
    /\ wErr # <<>>

(***************************************************************************)
(* web_search: the list handed back                                        *)
(***************************************************************************)
\* the i-th result of the search provider: title and snippet are told apart
\* by their position, page_content is empty
ProviderResult(i) ==
    [title |-> <<"title", i>>, link |-> tUrls[i], snippet |-> <<"snippet", i>>,
     page_content |-> Str(<<>>)]

\* r.model_copy(update={"page_content": page_md})
ModelCopy(r, page_md) == [r EXCEPT !.page_content = page_md]

\* asyncio.gather(*(enrich_one(r) for r in results)): the values of the
\* awaitables in the order they were passed in
GatherAsCompleted(order) ==
    [k \in 1 .. Len(order) |-> ModelCopy(ProviderResult(order[k]), tPage[order[k]])]

Gather(order) ==
    [i \in 1 .. Len(tUrls) |-> ModelCopy(ProviderResult(i), tPage[i])]

\* an enrich_one task has ended
TaskEnds(i) == tResp' = [tResp EXCEPT !.order = Append(@, i)]

OrderInit == ToolInit /\ tool = "web_search" /\ tBudget = 1

OrderSearchReturns ==
    /\ SearchReturns
    /\ tResp' = IF phase' = "returned" THEN [tResp EXCEPT !.returned = TRUE] ELSE tResp

OrderReturns ==
    /\ ToolReturns
    /\ tResp' = [tResp EXCEPT !.results = Gather(tResp.order), !.returned = TRUE]

OrderFrame ==
    UNCHANGED <<poolVars, supVars, resVars, workVars, bud, rq, dg, cf, sr, cli, life, se, wtodo>>

OrderNext ==
    \/ OrderSearchReturns /\ OrderFrame
    \/ \E i \in 1 .. Len(tUrls) : AdmitLate(i) /\ TaskEnds(i) /\ OrderFrame
    \/ \E i \in 1 .. Len(tUrls) : Admit(i) /\ UNCHANGED tResp /\ OrderFrame
    \/ \E i \in 1 .. Len(tUrls) : ResolveEnds(i) /\ TaskEnds(i) /\ OrderFrame
    \/ \E i \in 1 .. Len(tUrls) : ResolveTimesOut(i) /\ TaskEnds(i) /\ OrderFrame
    \/ OrderReturns /\ OrderFrame
    \/ ToolCancelled /\ UNCHANGED tResp /\ OrderFrame
    \/ Tick /\ UNCHANGED tResp /\ OrderFrame

(***************************************************************************)
(* web_search: the list handed back: properties                            *)
(***************************************************************************)
\* C39: the list web_search returns is as long as the provider's list and
\* its i-th element has the title, link and snippet of the provider's i-th
\* result and the page content resolved for it, a string.
C39_ResponseKeepsOrder ==
    tResp.returned =>
        /\ Len(tResp.results) = Len(tUrls)
        /\ \A i \in 1 .. Len(tUrls) :
            /\ tResp.results[i].title = ProviderResult(i).title
            /\ tResp.results[i].link = ProviderResult(i).link
            /\ tResp.results[i].snippet = ProviderResult(i).snippet
            /\ tResp.results[i].page_content = tPage[i]
            /\ ~tResp.results[i].page_content.isNone

\* two resolutions ended in the reverse of the provider's order, one of
\* them by timeout, and the response was returned
C39_Witness ==
    /\ tResp.returned
    /\ Len(tUrls) >= 2
    /\ tResp.order[1] > tResp.order[2]
    /\ \E i \in 1 .. Len(tUrls) : tKind[i] = "timeout"
    /\ \E i \in 1 .. Len(tUrls) : tKind[i] \in {"value", "none_value", "raise"}

(***************************************************************************)
(* Specifications                                                          *)
(***************************************************************************)
InitPool == PoolInit /\ SupInit /\ ResIdle /\ ToolIdle /\ WorkIdle /\ BudIdle /\ RenderIdle /\ DiagIdle /\ ConfIdle /\ SearchIdle /\ CliIdle /\ LifeInit /\ StderrIdle /\ PlanIdle /\ RespIdle

SpecPool == InitPool /\ [][PoolNext]_vars

InitSup == PoolInit /\ SupInit /\ ResIdle /\ ToolIdle /\ WorkIdle /\ BudIdle /\ RenderIdle /\ DiagIdle /\ ConfIdle /\ SearchIdle /\ CliIdle /\ LifeInit /\ StderrIdle /\ PlanIdle /\ RespIdle

SpecSup == InitSup /\ [][SupNext]_vars

InitRes == PoolInit /\ SupInit /\ ResInit /\ ToolIdle /\ WorkIdle /\ BudIdle /\ RenderIdle /\ DiagIdle /\ ConfIdle /\ SearchIdle /\ CliIdle /\ LifeInit /\ StderrIdle /\ PlanIdle /\ RespIdle

SpecRes == InitRes /\ [][ResNext]_vars

InitTool == PoolInit /\ SupInit /\ ResIdle /\ ToolInit /\ WorkIdle /\ BudIdle /\ RenderIdle /\ DiagIdle /\ ConfIdle /\ SearchIdle /\ CliIdle /\ LifeInit /\ StderrIdle /\ PlanIdle /\ RespIdle

SpecTool == InitTool /\ [][ToolNext]_vars

InitWork == PoolInit /\ SupInit /\ ResIdle /\ ToolIdle /\ WorkInit /\ BudIdle /\ RenderIdle /\ DiagIdle /\ ConfIdle /\ SearchIdle /\ CliIdle /\ LifeInit /\ StderrIdle /\ PlanIdle /\ RespIdle

SpecWork == InitWork /\ [][WorkNext]_vars

InitBud == PoolInit /\ SupInit /\ ResIdle /\ ToolIdle /\ WorkIdle /\ BudInit /\ RenderIdle /\ DiagIdle /\ ConfIdle /\ SearchIdle /\ CliIdle /\ LifeInit /\ StderrIdle /\ PlanIdle /\ RespIdle

SpecBud == InitBud /\ [][BudNext]_vars

InitRender == PoolInit /\ SupInit /\ ResIdle /\ ToolIdle /\ WorkIdle /\ BudIdle /\ RenderInit /\ DiagIdle /\ ConfIdle /\ SearchIdle /\ CliIdle /\ LifeInit /\ StderrIdle /\ PlanIdle /\ RespIdle

SpecRender == InitRender /\ [][RenderNext]_vars

InitDiag == PoolInit /\ SupInit /\ ResIdle /\ ToolIdle /\ WorkIdle /\ BudIdle /\ RenderIdle /\ DiagInit /\ ConfIdle /\ SearchIdle /\ CliIdle /\ LifeInit /\ StderrIdle /\ PlanIdle /\ RespIdle

SpecDiag == InitDiag /\ [][DiagNext]_vars

InitConf == PoolInit /\ SupInit /\ ResIdle /\ ToolIdle /\ WorkIdle /\ BudIdle /\ RenderIdle /\ DiagIdle /\ ConfInit /\ SearchIdle /\ CliIdle /\ LifeInit /\ StderrIdle /\ PlanIdle /\ RespIdle

SpecConf == InitConf /\ [][ConfNext]_vars

InitSearch == PoolInit /\ SupInit /\ ResIdle /\ ToolIdle /\ WorkIdle /\ BudIdle /\ RenderIdle /\ DiagIdle /\ ConfIdle /\ SearchInit /\ CliIdle /\ LifeInit /\ StderrIdle /\ PlanIdle /\ RespIdle

SpecSearch == InitSearch /\ [][SearchNext]_vars

InitCli == PoolInit /\ SupInit /\ ResIdle /\ ToolIdle /\ WorkIdle /\ BudIdle /\ RenderIdle /\ DiagIdle /\ ConfIdle /\ SearchIdle /\ CliInit /\ LifeInit /\ StderrIdle /\ PlanIdle /\ RespIdle

SpecCli == InitCli /\ [][CliNext]_vars

InitGetPool == PoolInit /\ SupInit /\ ResIdle /\ ToolIdle /\ WorkIdle /\ BudIdle /\ RenderIdle /\ DiagIdle /\ ConfIdle /\ SearchIdle /\ CliIdle /\ LifeInit /\ StderrIdle /\ PlanIdle /\ RespIdle

SpecGetPool == InitGetPool /\ [][GetPoolNext]_vars

InitPoolApi == PoolInit /\ SupInit /\ ResIdle /\ ToolIdle /\ WorkIdle /\ BudIdle /\ RenderIdle /\ DiagIdle /\ ConfIdle /\ SearchIdle /\ CliIdle /\ LifeInit /\ StderrIdle /\ PlanIdle /\ RespIdle

SpecPoolApi == InitPoolApi /\ [][PoolApiNext]_vars

InitStderr == PoolInit /\ SupInit /\ ResIdle /\ ToolIdle /\ WorkIdle /\ BudIdle /\ RenderIdle /\ DiagIdle /\ ConfIdle /\ SearchIdle /\ CliIdle /\ LifeInit /\ StderrInit /\ PlanIdle /\ RespIdle

SpecStderr == InitStderr /\ [][StderrNext]_vars

InitSupLive == PoolInit /\ SupInit /\ ResIdle /\ ToolIdle /\ WorkIdle /\ BudIdle /\ RenderIdle /\ DiagIdle /\ ConfIdle /\ SearchIdle /\ CliIdle /\ LifeInit /\ StderrIdle /\ PlanIdle /\ RespIdle

SpecSupLive == InitSupLive /\ [][SupLiveNext]_vars /\ LiveFairness

InitOrder == PoolInit /\ SupInit /\ ResIdle /\ OrderInit /\ WorkIdle /\ BudIdle /\ RenderIdle /\ DiagIdle /\ ConfIdle /\ SearchIdle /\ CliIdle /\ LifeInit /\ StderrIdle /\ PlanIdle /\ RespIdle

SpecOrder == InitOrder /\ [][OrderNext]_vars

====
